---- MODULE Spec2Model ----
(***************************************************************************)
(* A model of the native core of scrcpyHmos:                               *)
(*   - RingBuffer (adb/RingBuffer.h): the SPSC byte FIFO of every stream,  *)
(*     at the granularity of its atomic loads and stores, its mutex and    *)
(*     its condition variable (RingSpec);                                  *)
(*   - Adb (adb/Adb.cpp): the session, its receive thread, its sender      *)
(*     thread and the application threads calling into it: Spec has the    *)
(*     application open, read and close streams over a sound transport,    *)
(*     ShutdownSpec has the transport fail or stall under the workers,     *)
(*     HandshakeSpec is one connect() call on a fresh session,             *)
(*     TransferSpec is an open stream carrying data both ways,             *)
(*     BacklogSpec is the send queue filling behind a blocked sender,      *)
(*     OpenSpec has two threads calling open() at the same time;           *)
(*   - ScrcpyStreamManager (ScrcpyStreamManager.cpp): the framer threads   *)
(*     of the video, audio and control streams, each parsing what the      *)
(*     device sends (VideoSpec, AudioSpec, ControlSpec), the video thread  *)
(*     in front of a busy decoder (BackpressureSpec), and a running        *)
(*     session on which stop() is called (ManagerSpec).                    *)
(***************************************************************************)
EXTENDS Integers, Sequences, FiniteSets, TLC

(***************************************************************************)
(* Bounds of the model.                                                    *)
(***************************************************************************)
\* RingBuffer.h:25 clamps the capacity to at least 4096 bytes; the model
\* scales that floor down so that the indices wrap within a few bytes.
RingMinCapacity == 3
\* the capacity asked of the constructor
RingRequested == 2
\* bytes the producer writes in one run of RingSpec
MaxBytes == 6
\* largest `needed' the consumer passes to waitForData
MaxNeeded == 2
\* the device cuts what it sends on a media stream after at most MaxCut bytes
MaxCut == 6
\* device messages (or media packets) in one run of a framer specification
MaxMessages == 2
\* a clipboard text between the shortest and the longest
MaxText == 3
\* packets the device sends on a media stream
MaxPackets == 2
\* bytes of the longest well-formed packet payload
MaxPacket == 2
\* requests for an input buffer a busy decoder answers with a timeout
MaxWaits == 520

Min(a, b) == IF a < b THEN a ELSE b

(***************************************************************************)
(* RingBuffer                                                              *)
(***************************************************************************)
VARIABLES
    buffer_,     \* std::vector<uint8_t> buffer_: slot -> byte (0: never written)
    head_,       \* atomic<uint64_t> head_, written by the producer
    tail_,       \* atomic<uint64_t> tail_, written by the consumer
    waiting_,    \* atomic<bool> waiting_
    closed_,     \* atomic<bool> closed_
    mutex_,      \* std::mutex mutex_: its owner, or "none"
    cvParked,    \* the consumer is blocked inside cv_.wait / cv_.wait_for
    cvNotified,  \* a notify_all reached the parked consumer
    prod,        \* the producer thread: pc and locals
    cons,        \* the consumer thread: pc and locals
    closer,      \* the thread calling close(): pc
    consumed     \* history: the bytes the consumer copied out, in order

ringVars == <<buffer_, head_, tail_, waiting_, closed_, mutex_, cvParked,
              cvNotified, prod, cons, closer, consumed>>

\* the state of an Adb session
VARIABLES
    isClosed_,           \* atomic<bool> Adb::isClosed_
    handleInRunning_,    \* atomic<bool> Adb::handleInRunning_
    sendRunning_,        \* atomic<bool> Adb::sendRunning_
    chClosed,            \* TcpChannel::closed_
    linkUp,              \* the socket is connected (FALSE: the peer went away)
    localIdPool_,        \* int32_t Adb::localIdPool_
    streams,             \* the AdbStream objects ever allocated, by address
    connectionStreams_,  \* local id -> address (0: no entry)
    openStreams_,        \* local id -> address (0: no entry)
    sendQueue_,          \* the frames queued for the sender
    sendMutex_,          \* sendMutex_: its owner, or "none"
    sendParked,          \* the sender is blocked inside sendCv_.wait
    sendNotified,        \* a notify reached the parked sender
    sendThread_,         \* std::thread sendThread_: joinable / joined / detached
    handleInThread_,     \* std::thread handleInThread_, likewise
    recv,                \* the receive thread (handleInLoop): pc and locals
    send,                \* the sender thread (sendLoop): pc and locals
    app,                 \* the application thread using streams: pc and locals
    cl,                  \* the activation of Adb::close() on each thread
    inbound,             \* frames the peer has sent so far
    announced,           \* the local ids the peer has been told in an OPEN frame
    handles,             \* the ids open() has returned to the application
    owned,               \* history: ids open(.., true) returned, not yet passed
                         \*          to streamClose
    closedIds,           \* history: ids for which streamClose has returned
    closeReturned,       \* history: a close() call that ran the shutdown returned
    connectCall,         \* the activation of Adb::connect(): pc and locals
    maxData_,            \* uint32_t Adb::maxData_
    backlog,             \* the send queue seen as a count of equal-sized frames
    txSubmitted,         \* history: stream bytes streamWriteRaw has cut into chunks
    txWritten,           \* history: stream bytes the sender has put on the transport
    acceptedAfterClose,  \* history: frames queued after isClosed_ was set
    openCount            \* history: local id -> number of open() calls that returned it

adbVars == <<isClosed_, handleInRunning_, sendRunning_, chClosed, linkUp,
             localIdPool_, streams, connectionStreams_, openStreams_, sendQueue_,
             sendMutex_, sendParked, sendNotified, sendThread_, handleInThread_,
             recv, send, app, cl, inbound, announced, handles, owned,
             closedIds, closeReturned, connectCall, maxData_, backlog, txSubmitted,
             txWritten, acceptedAfterClose, openCount>>


(***************************************************************************)
(* ScrcpyStreamManager (ScrcpyStreamManager.cpp): the three framer threads *)
(* that parse the scrcpy streams of a session, the events they emit and    *)
(* the decoders they feed.  The session is seen from the manager: the      *)
(* media streams' AdbStream objects with the bytes in their ring buffers,  *)
(* their registry entries, and the device at the other end.                *)
(***************************************************************************)
VARIABLES
    running_,        \* atomic<bool> ScrcpyStreamManager::running_
    adb_,            \* Adb* adb_: TRUE when it points to the session
    config_,         \* Config: the stream id of each media stream (-1: none)
    mediaThread,     \* videoThread_, audioThread_, controlThread_:
                     \*   "none" / "joinable" / "joined"
    framer,          \* the three thread functions: pc and locals
    stopCall,        \* the activation of stop(): pc
    mediaObjs,       \* per media stream, the AdbStream objects ever registered
                     \*   under its id: closed flag and ring buffer content
    mediaReg,        \* connectionStreams_ at the media ids: the index of the
                     \*   registered object in mediaObjs (0: no entry)
    peer,            \* the device: the WRTE payloads it has still to send on
                     \*   each stream, and whether it has sent CLSE
    events,          \* the events handed to eventCallback_, in order
    decoders         \* videoDecoder_ / audioDecoder_ and what they were given

mgrVars == <<running_, adb_, config_, mediaThread, framer, stopCall, mediaObjs,
             mediaReg, peer, events, decoders>>

(* the native helpers: message codec, buffer pool, video decoder, processor *)
VARIABLES
    wire,            \* AdbProtocol::generateMessage and the read of its bytes
    bufferPool,      \* NativeBufferPool, the heap under it and its clients
    decoderCtx,      \* VideoDecoderNative: DecoderContext, the codec, callers
    processor        \* VideoStreamProcessor and the callers of PushData

nativeVars == <<wire, bufferPool, decoderCtx, processor>>

vars == <<mgrVars, ringVars, adbVars, nativeVars>>

\* the native helpers before anything uses them
NoWire == [pc |-> "none"]
NoPool == [pc |-> "none"]
NoDecoderCtx == [pc |-> "none"]
NoProcessor == [pc |-> "none"]

NativeIdle ==
    /\ wire = NoWire
    /\ bufferPool = NoPool
    /\ decoderCtx = NoDecoderCtx
    /\ processor = NoProcessor

(***************************************************************************)
(* Byte strings of the media streams.  A byte string is a sequence of runs *)
(* [b |-> byte, n |-> count] in which no two neighbours carry the same     *)
(* byte and no run is empty, so that equal strings are equal values and a  *)
(* clipboard text of 100000 bytes is one run.                              *)
(***************************************************************************)
Run(b, n) == IF n = 0 THEN <<>> ELSE <<[b |-> b, n |-> n]>>

RECURSIVE BLen(_)
BLen(s) == IF s = <<>> THEN 0 ELSE s[1].n + BLen(Tail(s))

\* s followed by t
BCat(s, t) ==
    IF s = <<>> THEN t
    ELSE IF t = <<>> THEN s
    ELSE IF s[Len(s)].b = t[1].b
         THEN SubSeq(s, 1, Len(s) - 1) \o Run(t[1].b, s[Len(s)].n + t[1].n) \o Tail(t)
         ELSE s \o t

\* the first k bytes of s (all of s when it is shorter)
RECURSIVE BTake(_, _)
BTake(s, k) ==
    IF k <= 0 \/ s = <<>> THEN <<>>
    ELSE IF s[1].n >= k THEN Run(s[1].b, k)
    ELSE <<s[1]>> \o BTake(Tail(s), k - s[1].n)

\* s without its first k bytes
RECURSIVE BDrop(_, _)
BDrop(s, k) ==
    IF k <= 0 \/ s = <<>> THEN s
    ELSE IF s[1].n > k THEN Run(s[1].b, s[1].n - k) \o Tail(s)
    ELSE BDrop(Tail(s), k - s[1].n)

\* the byte string of a sequence of bytes
RECURSIVE Bytes(_)
Bytes(q) == IF q = <<>> THEN <<>> ELSE BCat(Run(q[1], 1), Bytes(Tail(q)))

\* byte i (from 1) of s
RECURSIVE BGet(_, _)
BGet(s, i) == IF i <= s[1].n THEN s[1].b ELSE BGet(Tail(s), i - s[1].n)

\* ScrcpyStreamManager::readInt32BE on the 4 bytes of s from position i: the
\* shifts fill an int32_t, so a first byte of 128 or more gives a negative
\* value
readInt32BE(s, i) ==
    LET b0 == BGet(s, i)
        hi == IF b0 >= 128 THEN b0 - 256 ELSE b0
    IN  hi * 16777216 + BGet(s, i + 1) * 65536 + BGet(s, i + 2) * 256
        + BGet(s, i + 3)

\* the four bytes readInt32BE turns into v
Int32BE(v) ==
    LET lo == IF v >= 0 THEN v ELSE v + 2147483647 + 1
        b0 == (lo \div 16777216) + (IF v >= 0 THEN 0 ELSE 128)
    IN  <<b0, (lo \div 65536) % 256, (lo \div 256) % 256, lo % 256>>

\* the media streams of a session
Media == {"video", "audio", "control"}
\* the stream ids Adb::open(.., true) returned for them
StreamIdOf(m) == CASE m = "video" -> 1 [] m = "audio" -> 2 [] OTHER -> 3

\* a framer thread that has not been started: pc and the locals of the
\* thread function and of the read it is in
\*   ret, onThrow: where the read in progress continues / where its exception
\*   lands;  want, got, obj, timed: size, bytes read so far, AdbStream* and
\*   whether the read has a timeout;  what: e.what() of the exception caught
FramerIdle ==
    [pc |-> "none", ret |-> "none", onThrow |-> "none", want |-> 0, got |-> <<>>,
     obj |-> 0, timed |-> FALSE, what |-> "", isConfig |-> FALSE, cleanPts |-> <<>>,
     flags |-> 0, frameSize |-> 0, getBufRet |-> 0 - 1, bufCapacity |-> 0,
     deviceName |-> <<>>, firstFrameNotified |-> FALSE, eventType |-> 0]

\* a decoder pointer that is still nullptr
NoDecoder == [codec |-> "none", started |-> FALSE, submitted |-> <<>>,
              pool |-> "free", capacity |-> 0, refusals |-> 0, refused |-> 0]

\* struct AdbStream as the framers see it: closed flag and ring buffer content
MediaStream == [closed |-> FALSE, buf |-> <<>>]

\* the state after ScrcpyStreamManager::ScrcpyStreamManager(): not running,
\* no thread, default Config
MgrInit ==
    /\ running_ = FALSE
    /\ adb_ = FALSE
    /\ config_ = [m \in Media |-> 0 - 1]
    /\ mediaThread = [m \in Media |-> "none"]
    /\ framer = [m \in Media |-> FramerIdle]
    /\ stopCall = [pc |-> "idle", m |-> "video", obj |-> 0]
    /\ mediaObjs = [m \in Media |-> <<>>]
    /\ mediaReg = [m \in Media |-> 0]
    /\ peer = [m \in Media |-> [script |-> <<>>, clse |-> FALSE, all |-> <<>>]]
    /\ events = <<>>
    /\ decoders = [m \in {"video", "audio"} |-> NoDecoder]

\* RingBuffer::RingBuffer: clamp to the floor, round up to a power of two
RECURSIVE RoundUpPow2(_, _)
RoundUpPow2(cap, capacity) ==
    IF cap < capacity THEN RoundUpPow2(cap * 2, capacity) ELSE cap

RingCapacity(capacity) ==
    RoundUpPow2(1, IF capacity < RingMinCapacity THEN RingMinCapacity ELSE capacity)

capacity_ == RingCapacity(RingRequested)

\* h & mask_, with mask_ = capacity_ - 1 and capacity_ a power of two
Masked(i) == i % capacity_

\* RingBuffer::size
size == head_ - tail_

\* the byte the peer sent at stream offset `pos' (offsets tag the bytes, so that
\* order, loss and duplication are visible)
ByteAt(pos) == pos + 1

\* RingBuffer::getWritePtr: the contiguous writable size seen with head h, tail t
WriteAvail_IgnoresTail(h, t) == capacity_ - Masked(h)

WriteAvail(h, t) ==
    IF h - t >= capacity_ THEN 0
    ELSE Min(capacity_ - (h - t), capacity_ - Masked(h))

\* RingBuffer::getReadPtr: the contiguous readable size seen with head h, tail t
ReadAvail(h, t) ==
    IF h - t = 0 THEN 0
    ELSE Min(h - t, capacity_ - Masked(t))

RingInit ==
    /\ buffer_ = [i \in 0..(capacity_ - 1) |-> 0]
    /\ head_ = 0
    /\ tail_ = 0
    /\ waiting_ = FALSE
    /\ closed_ = FALSE
    /\ mutex_ = "none"
    /\ cvParked = FALSE
    /\ cvNotified = FALSE
    /\ prod = [pc |-> "idle", idx |-> 0, n |-> 0, k |-> 0]
    /\ cons = [pc |-> "idle", needed |-> 0, timeoutMs |-> 0, result |-> FALSE,
               idx |-> 0, n |-> 0, k |-> 0]
    /\ closer = "idle"
    /\ consumed = <<>>

(* ---- producer: Adb::handleInLoop's zero-copy loop ---------------------- *)

\* getWritePtr, then toRead = min(remaining, writeInfo.second), remaining >= 1
getWritePtr ==
    /\ prod.pc = "idle"
    /\ head_ < MaxBytes
    /\ WriteAvail(head_, tail_) > 0
    /\ \E toRead \in 1..Min(WriteAvail(head_, tail_), MaxBytes - head_) :
          prod' = [pc |-> "write", idx |-> Masked(head_), n |-> toRead, k |-> 0]
    /\ UNCHANGED <<nativeVars, mgrVars, adbVars, buffer_, head_, tail_, waiting_, closed_, mutex_, cvParked,
                   cvNotified, cons, closer, consumed>>

\* channel_->readWithTimeout(writeInfo.first, toRead, -1): one byte lands in the slot
ProducerStoreByte ==
    /\ prod.pc = "write"
    /\ prod.k < prod.n
    /\ buffer_' = [buffer_ EXCEPT ![prod.idx + prod.k] = ByteAt(head_ + prod.k)]
    /\ prod' = [prod EXCEPT !.k = @ + 1]
    /\ UNCHANGED <<nativeVars, mgrVars, adbVars, head_, tail_, waiting_, closed_, mutex_, cvParked, cvNotified,
                   cons, closer, consumed>>

\* commitWrite: head_.store(h + written, release)
commitWrite_store ==
    /\ prod.pc = "write"
    /\ prod.k = prod.n
    /\ head_' = head_ + prod.n
    /\ prod' = [prod EXCEPT !.pc = "checkWaiting"]
    /\ UNCHANGED <<nativeVars, mgrVars, adbVars, buffer_, tail_, waiting_, closed_, mutex_, cvParked, cvNotified,
                   cons, closer, consumed>>

\* commitWrite: fence; if (waiting_.load(acquire))
commitWrite_loadWaiting ==
    /\ prod.pc = "checkWaiting"
    /\ prod' = [prod EXCEPT !.pc = IF waiting_ THEN "lock" ELSE "idle"]
    /\ UNCHANGED <<nativeVars, mgrVars, adbVars, buffer_, head_, tail_, waiting_, closed_, mutex_, cvParked,
                   cvNotified, cons, closer, consumed>>

\* commitWrite: unique_lock lock(mutex_); waiting_.store(false); cv_.notify_all();
\* the lock is released at the end of the block
commitWrite_notify ==
    /\ prod.pc = "lock"
    /\ mutex_ = "none"
    /\ waiting_' = FALSE
    /\ cvNotified' = (cvNotified \/ cvParked)
    /\ prod' = [prod EXCEPT !.pc = "idle"]
    /\ UNCHANGED <<nativeVars, mgrVars, adbVars, buffer_, head_, tail_, closed_, mutex_, cvParked, cons, closer,
                   consumed>>

(* ---- consumer: copyTo -------------------------------------------------- *)

\* copyTo: getReadPtr, then toCopy = min(count - totalCopied, readInfo.second)
getReadPtr ==
    /\ cons.pc = "idle"
    /\ ReadAvail(head_, tail_) > 0
    /\ \E toCopy \in 1..ReadAvail(head_, tail_) :
          cons' = [cons EXCEPT !.pc = "copy", !.idx = Masked(tail_), !.n = toCopy,
                               !.k = 0]
    /\ UNCHANGED <<nativeVars, mgrVars, adbVars, buffer_, head_, tail_, waiting_, closed_, mutex_, cvParked,
                   cvNotified, prod, closer, consumed>>

\* copyTo: std::memcpy(dest + totalCopied, readInfo.first, toCopy), byte by byte
ConsumerLoadByte ==
    /\ cons.pc = "copy"
    /\ cons.k < cons.n
    /\ consumed' = Append(consumed, buffer_[cons.idx + cons.k])
    /\ cons' = [cons EXCEPT !.k = @ + 1]
    /\ UNCHANGED <<nativeVars, mgrVars, adbVars, buffer_, head_, tail_, waiting_, closed_, mutex_, cvParked,
                   cvNotified, prod, closer>>

\* consumeRead: tail_.store(t + consumed, release)
consumeRead ==
    /\ cons.pc = "copy"
    /\ cons.k = cons.n
    /\ tail_' = tail_ + cons.n
    /\ cons' = [cons EXCEPT !.pc = "idle"]
    /\ UNCHANGED <<nativeVars, mgrVars, adbVars, buffer_, head_, waiting_, closed_, mutex_, cvParked, cvNotified,
                   prod, closer, consumed>>

(* ---- consumer: waitForData(needed, timeoutMs) -------------------------- *)

\* the three kinds of timeout the code distinguishes: < 0, = 0, > 0
Timeouts == {-1, 0, 1}

\* if (needed == 0) needed = 1; if (size() >= needed) return true;
waitForData_fastPath ==
    /\ cons.pc = "idle"
    /\ \E needed \in 0..MaxNeeded, timeoutMs \in Timeouts :
          LET nd == IF needed = 0 THEN 1 ELSE needed IN
          cons' = IF size >= nd
                  THEN [cons EXCEPT !.pc = "returned", !.needed = nd,
                                    !.timeoutMs = timeoutMs, !.result = TRUE]
                  ELSE [cons EXCEPT !.pc = "checkClosed", !.needed = nd,
                                    !.timeoutMs = timeoutMs]
    /\ UNCHANGED <<nativeVars, mgrVars, adbVars, buffer_, head_, tail_, waiting_, closed_, mutex_, cvParked,
                   cvNotified, prod, closer, consumed>>

\* if (closed_.load(acquire)) return false; if (timeoutMs == 0) return false;
waitForData_checkClosed ==
    /\ cons.pc = "checkClosed"
    /\ cons' = IF closed_ \/ cons.timeoutMs = 0
               THEN [cons EXCEPT !.pc = "returned", !.result = FALSE]
               ELSE [cons EXCEPT !.pc = "lock"]
    /\ UNCHANGED <<nativeVars, mgrVars, adbVars, buffer_, head_, tail_, waiting_, closed_, mutex_, cvParked,
                   cvNotified, prod, closer, consumed>>

\* unique_lock lock(mutex_); waiting_.store(true, release); fence
waitForData_setWaiting ==
    /\ cons.pc = "lock"
    /\ mutex_ = "none"
    /\ mutex_' = "cons"
    /\ waiting_' = TRUE
    /\ cons' = [cons EXCEPT !.pc = "recheckSize"]
    /\ UNCHANGED <<nativeVars, mgrVars, adbVars, buffer_, head_, tail_, closed_, cvParked, cvNotified, prod,
                   closer, consumed>>

\* if (size() >= needed || ...: the left operand
waitForData_recheckSize ==
    /\ cons.pc = "recheckSize"
    /\ cons' = [cons EXCEPT !.pc = IF size >= cons.needed THEN "recheckExit"
                                   ELSE "recheckClosed"]
    /\ UNCHANGED <<nativeVars, mgrVars, adbVars, buffer_, head_, tail_, waiting_, closed_, mutex_, cvParked,
                   cvNotified, prod, closer, consumed>>

\* ... || closed_.load()): the right operand
waitForData_recheckClosed ==
    /\ cons.pc = "recheckClosed"
    /\ cons' = [cons EXCEPT !.pc = IF closed_ THEN "recheckExit" ELSE "predSize"]
    /\ UNCHANGED <<nativeVars, mgrVars, adbVars, buffer_, head_, tail_, waiting_, closed_, mutex_, cvParked,
                   cvNotified, prod, closer, consumed>>

\* waiting_.store(false); return size() >= needed; (the lock is released)
waitForData_recheckExit ==
    /\ cons.pc = "recheckExit"
    /\ waiting_' = FALSE
    /\ mutex_' = "none"
    /\ cons' = [cons EXCEPT !.pc = "returned", !.result = (size >= cons.needed)]
    /\ UNCHANGED <<nativeVars, mgrVars, adbVars, buffer_, head_, tail_, closed_, cvParked, cvNotified, prod,
                   closer, consumed>>

\* the wait predicate, left operand: size() >= needed
waitForData_predSize ==
    /\ cons.pc = "predSize"
    /\ cons' = [cons EXCEPT !.pc = IF size >= cons.needed THEN "predReady"
                                   ELSE "predClosed"]
    /\ UNCHANGED <<nativeVars, mgrVars, adbVars, buffer_, head_, tail_, waiting_, closed_, mutex_, cvParked,
                   cvNotified, prod, closer, consumed>>

\* the wait predicate, right operand: closed_.load(); when the predicate is false
\* cv_.wait / cv_.wait_for releases the mutex and parks the thread in one step
waitForData_predClosed ==
    /\ cons.pc = "predClosed"
    /\ IF closed_
       THEN /\ cons' = [cons EXCEPT !.pc = "predReady"]
            /\ UNCHANGED <<mutex_, cvParked, cvNotified>>
       ELSE /\ cons' = [cons EXCEPT !.pc = "parked"]
            /\ mutex_' = "none"
            /\ cvParked' = TRUE
            /\ cvNotified' = FALSE
    /\ UNCHANGED <<nativeVars, mgrVars, adbVars, buffer_, head_, tail_, waiting_, closed_, prod, closer, consumed>>

\* the result of the wait once its predicate held:
\*   timeoutMs < 0: result = size() >= needed;
\*   timeoutMs > 0: result = cv_.wait_for(...), the predicate's value
WaitResult(timeoutMs, ready) ==
    IF timeoutMs < 0 THEN size >= cons.needed ELSE ready

\* if (ready) waiting_.store(false); return ready; then the code after the wait:
\* if (!result) waiting_.store(false); return result;
waitForData_predReady ==
    /\ cons.pc = "predReady"
    /\ waiting_' = FALSE
    /\ mutex_' = "none"
    /\ cons' = [cons EXCEPT !.pc = "returned",
                            !.result = WaitResult(cons.timeoutMs, TRUE)]
    /\ UNCHANGED <<nativeVars, mgrVars, adbVars, buffer_, head_, tail_, closed_, cvParked, cvNotified, prod,
                   closer, consumed>>

\* the parked thread wakes after a notify_all and takes the mutex again
waitForData_wake ==
    /\ cons.pc = "parked"
    /\ cvNotified
    /\ mutex_ = "none"
    /\ mutex_' = "cons"
    /\ cvParked' = FALSE
    /\ cvNotified' = FALSE
    /\ cons' = [cons EXCEPT !.pc = "predSize"]
    /\ UNCHANGED <<nativeVars, mgrVars, adbVars, buffer_, head_, tail_, waiting_, closed_, prod, closer, consumed>>

\* a condition variable may wake without a notify (spurious wakeup)
waitForData_spuriousWake ==
    /\ cons.pc = "parked"
    /\ ~cvNotified
    /\ mutex_ = "none"
    /\ mutex_' = "cons"
    /\ cvParked' = FALSE
    /\ cons' = [cons EXCEPT !.pc = "predSize"]
    /\ UNCHANGED <<nativeVars, mgrVars, adbVars, buffer_, head_, tail_, waiting_, closed_, cvNotified, prod,
                   closer, consumed>>

\* cv_.wait_for: the timeout elapses; the thread takes the mutex again and
\* wait_for returns the predicate's value, which clears waiting_ when it holds;
\* then if (!result) waiting_.store(false)
waitForData_timeout ==
    /\ cons.pc = "parked"
    /\ cons.timeoutMs > 0
    /\ mutex_ = "none"
    /\ mutex_' = "cons"
    /\ cvParked' = FALSE
    /\ cvNotified' = FALSE
    /\ cons' = [cons EXCEPT !.pc = "timedOutSize"]
    /\ UNCHANGED <<nativeVars, mgrVars, adbVars, buffer_, head_, tail_, waiting_, closed_, prod, closer, consumed>>

waitForData_timedOutSize ==
    /\ cons.pc = "timedOutSize"
    /\ cons' = [cons EXCEPT !.pc = IF size >= cons.needed THEN "predReady"
                                   ELSE "timedOutClosed"]
    /\ UNCHANGED <<nativeVars, mgrVars, adbVars, buffer_, head_, tail_, waiting_, closed_, mutex_, cvParked,
                   cvNotified, prod, closer, consumed>>

waitForData_timedOutClosed ==
    /\ cons.pc = "timedOutClosed"
    /\ IF closed_
       THEN /\ cons' = [cons EXCEPT !.pc = "predReady"]
            /\ UNCHANGED <<waiting_, mutex_>>
       ELSE /\ cons' = [cons EXCEPT !.pc = "returned", !.result = FALSE]
            /\ waiting_' = FALSE
            /\ mutex_' = "none"
    /\ UNCHANGED <<nativeVars, mgrVars, adbVars, buffer_, head_, tail_, closed_, cvParked, cvNotified, prod,
                   closer, consumed>>

\* the caller takes the result
waitForData_return ==
    /\ cons.pc = "returned"
    /\ cons' = [cons EXCEPT !.pc = "idle", !.result = FALSE]
    /\ UNCHANGED <<nativeVars, mgrVars, adbVars, buffer_, head_, tail_, waiting_, closed_, mutex_, cvParked,
                   cvNotified, prod, closer, consumed>>

(* ---- RingBuffer::close ------------------------------------------------- *)

\* closed_.store(true, release)
RingBuffer_close_store ==
    /\ closer = "idle"
    /\ closed_' = TRUE
    /\ closer' = "lock"
    /\ UNCHANGED <<nativeVars, mgrVars, adbVars, buffer_, head_, tail_, waiting_, mutex_, cvParked, cvNotified,
                   prod, cons, consumed>>

\* unique_lock lock(mutex_); cv_.notify_all();
RingBuffer_close_notify ==
    /\ closer = "lock"
    /\ mutex_ = "none"
    /\ cvNotified' = (cvNotified \/ cvParked)
    /\ closer' = "done"
    /\ UNCHANGED <<nativeVars, mgrVars, adbVars, buffer_, head_, tail_, waiting_, closed_, mutex_, cvParked, prod,
                   cons, consumed>>

(***************************************************************************)
(* Adb: the session                                                        *)
(***************************************************************************)
\* open() calls the application makes on one session
MaxOpens == 1
\* frames the peer sends on the session
MaxFrames == 2
\* largest payload_length of an inbound frame
MaxPayload == 1
\* largest `size' passed to streamRead / streamReadToBuffer
MaxReadSize == 1

\* largest `len' passed to streamWrite
MaxWriteLen == 2
\* bytes the application writes on a stream in one run
MaxWriteBytes == 3
\* largest chunk size, maxData_ - 128, the peer's CNXN leaves the session with
MaxChunk == 2
\* a max payload below this side's, advertised by a peer in CNXN's arg1
PeerSmallMaxData == 4096
\* a max payload above this side's, advertised by a peer in CNXN's arg1
PeerLargeMaxData == 1048576
\* frames handed to writeToChannel while the sender is blocked
MaxSubmitted == 5003
\* payload bytes of the large frames of a backlog
MaxChunkBytes == 262144

ADB_HEADER_LENGTH == 24
CHUNK_RESERVE == 128
CONNECT_VERSION == 16777216
CONNECT_MAXDATA == 15360
MAX_SEND_QUEUE_SIZE == 52428800
MAX_SEND_QUEUE_COUNT == 5000
DROP_CHUNK == 4096
\* the longest clipboard text controlThreadFunc accepts
MAX_CLIPBOARD == 100000
\* the largest audio packet audioThreadFunc accepts (1024 * 1024)
MAX_AUDIO_FRAME == 1048576
\* the largest video packet videoThreadFunc accepts (20 * 1024 * 1024)
MAX_VIDEO_FRAME == 20971520
\* AVCODEC_BUFFER_FLAGS_CODEC_DATA, the flag of a config packet
CODEC_DATA == 8
\* bytes of the device name in the video header
DEVICE_NAME_LEN == 64
\* the retry window for a decoder input buffer (500 waits, about 5 s)
MAX_WAIT_FOR_DECODER == 500

\* the local ids open() can hand out: positive (multi-send) or negated
Ids == (1..MaxOpens) \cup {0 - i : i \in 1..MaxOpens}
\* the ids the peer uses for its end of a stream
RemoteIds == {7}
\* the application threads that open, read and close streams
Apps == {"app1"}
\* two application threads that call open() at the same time
Openers == {"app1", "app3"}
\* the threads that can run Adb::close()
Closers == {"recv", "send", "app2"}

Frame(cmd, arg0, arg1, len) == [cmd |-> cmd, arg0 |-> arg0, arg1 |-> arg1, len |-> len]
NoFrame == Frame("NONE", 0, 0, 0)

\* AdbProtocol::generateOpen: arg0 = localId, arg1 = 0, payload = dest + NUL
generateOpen(localId, destLen) == Frame("OPEN", localId, 0, destLen + 1)
\* AdbProtocol::generateClose
generateClose(localId, remoteId) == Frame("CLSE", localId, remoteId, 0)
\* AdbProtocol::generateOkay
generateOkay(localId, remoteId) == Frame("OKAY", localId, remoteId, 0)
\* AdbProtocol::generateWrite: arg0 = localId, arg1 = remoteId and len payload
\* bytes; `off' is the position of those bytes in the data the application
\* writes on the stream, which stands for the payload's content
generateWrite(localId, remoteId, off, len) ==
    [cmd |-> "WRTE", arg0 |-> localId, arg1 |-> remoteId, len |-> len, off |-> off]
\* a frame built by generateWrite
IsChunk(f) == "off" \in DOMAIN f
\* AdbProtocol::generateMessage: the encoded size of a frame
FrameBytes(f) == ADB_HEADER_LENGTH + f.len

\* what the peer can send on the streams it knows: OKAY and CLSE carry no
\* payload, WRTE carries 0..MaxPayload bytes
InboundFrames(known) ==
    {Frame(c, a0, a1, 0) : c \in {"OKAY", "CLSE"}, a0 \in RemoteIds, a1 \in known}
    \cup {Frame("WRTE", f[1], f[2], f[3]) :
              f \in RemoteIds \X known \X (0..MaxPayload)}

\* struct AdbStream, with its RingBuffer reduced to its indices and closed flag
AdbStream(localId, remoteId, canMultipleSend) ==
    [localId |-> localId, remoteId |-> remoteId, canMultipleSend |-> canMultipleSend,
     closed |-> FALSE, canWrite |-> FALSE, rbHead |-> 0, rbTail |-> 0,
     rbClosed |-> FALSE, freed |-> FALSE]

NoEntries == [i \in Ids |-> 0]

AppIdle == [pc |-> "idle", op |-> "none", id |-> 0, obj |-> 0, size |-> 0,
            timeoutMs |-> 0, exact |-> FALSE, totalRead |-> 0, result |-> "none",
            afterClose |-> FALSE, offset |-> 0]

NoCall == [pc |-> "none", won |-> FALSE]

\* the receive thread between two frames: no frame in hand
RecvAt(pc) == [pc |-> pc, frame |-> NoFrame, obj |-> 0, remaining |-> 0,
               got |-> 0, dropped |-> 0]

\* the state after Adb::create() and a successful connect(): both worker
\* threads run, no stream is open
AdbInit ==
    /\ isClosed_ = FALSE
    /\ handleInRunning_ = TRUE
    /\ sendRunning_ = TRUE
    /\ chClosed = FALSE
    /\ linkUp = TRUE
    /\ localIdPool_ = 1
    /\ streams = <<>>
    /\ connectionStreams_ = NoEntries
    /\ openStreams_ = NoEntries
    /\ sendQueue_ = <<>>
    /\ sendMutex_ = "none"
    /\ sendParked = FALSE
    /\ sendNotified = FALSE
    /\ sendThread_ = "joinable"
    /\ handleInThread_ = "joinable"
    /\ recv = RecvAt("loop")
    /\ send = [pc |-> "loop", data |-> NoFrame]
    /\ app = [a \in Apps |-> AppIdle]
    /\ cl = [t \in Closers |-> NoCall]
    /\ inbound = 0
    /\ announced = {}
    /\ handles = {}
    /\ owned = {}
    /\ closedIds = {}
    /\ closeReturned = FALSE

\* a handshake message as connect() sees it: command, arg0, arg1
Message(cmd, arg0, arg1) == [cmd |-> cmd, arg0 |-> arg0, arg1 |-> arg1]
NoMessage == Message("NONE", 0, 0)

\* connect() has not been called
ConnIdle == [pc |-> "idle", onWaitAuth |-> FALSE, message |-> NoMessage,
             sentRsa |-> FALSE, waitAuthCalls |-> 0, result |-> 0]

\* connect() returned 0 on the CNXN message m, without the public-key round
Connected(m) == [ConnIdle EXCEPT !.pc = "returned", !.message = m]

\* the session of AdbInit was connected to a peer that answered
\* CNXN(CONNECT_VERSION, CONNECT_MAXDATA): maxData_ = message.arg0
ConnectedInit ==
    /\ connectCall = Connected(Message("CNXN", CONNECT_VERSION, CONNECT_MAXDATA))
    /\ maxData_ = CONNECT_VERSION

NoBacklog == [count |-> 0, dataSize |-> 0, submitted |-> 0, newest |-> 0,
              last |-> "none"]

\* the sizes of the frames of a backlog: a bare header (OKAY, CLSE) and a
\* WRTE chunk of MaxChunkBytes bytes
BacklogFrameSizes == {ADB_HEADER_LENGTH, ADB_HEADER_LENGTH + MaxChunkBytes}

\* nothing written on any stream, no frame queued, no open() returned
IdleInit ==
    /\ backlog = NoBacklog
    /\ txSubmitted = 0
    /\ txWritten = 0
    /\ acceptedAfterClose = 0
    /\ openCount = [i \in Ids |-> 0]

\* a connected session on which open("shell:", true) has returned local id 1:
\* the peer answered OKAY and may have sent 0..capacity_ bytes that nobody has
\* read yet; its CNXN left the session with a chunk size of 1..MaxChunk bytes;
\* inbound counts the frames from here on
TransferInit ==
    /\ RingInit
    /\ NativeIdle
    /\ MgrInit
    /\ isClosed_ = FALSE
    /\ handleInRunning_ = TRUE
    /\ sendRunning_ = TRUE
    /\ chClosed = FALSE
    /\ linkUp = TRUE
    /\ localIdPool_ = 2
    /\ \E fill \in 0..capacity_, r \in RemoteIds :
          streams = <<[AdbStream(1, r, TRUE) EXCEPT !.canWrite = TRUE,
                                                    !.rbHead = fill]>>
    /\ connectionStreams_ = [NoEntries EXCEPT ![1] = 1]
    /\ openStreams_ = NoEntries
    /\ sendQueue_ = <<>>
    /\ sendMutex_ = "none"
    /\ sendParked = FALSE
    /\ sendNotified = FALSE
    /\ sendThread_ = "joinable"
    /\ handleInThread_ = "joinable"
    /\ recv = RecvAt("loop")
    /\ send = [pc |-> "loop", data |-> NoFrame]
    /\ app = [a \in Apps |-> AppIdle]
    /\ cl = [t \in Closers |-> NoCall]
    /\ inbound = 0
    /\ announced = {1}
    /\ handles = {1}
    /\ owned = {1}
    /\ closedIds = {}
    /\ closeReturned = FALSE
    /\ \E c \in 1..MaxChunk :
          /\ maxData_ = CHUNK_RESERVE + c
          /\ connectCall = Connected(Message("CNXN", CHUNK_RESERVE + c, CONNECT_MAXDATA))
    /\ backlog = NoBacklog
    /\ txSubmitted = 0
    /\ txWritten = 0
    /\ acceptedAfterClose = 0
    /\ openCount = [i \in Ids |-> IF i = 1 THEN 1 ELSE 0]

\* Adb::writeToChannel: the test that makes it drop the frame it was given,
\* for a queue of n frames and a frame of dataSize bytes:
\* if (sendQueue_.size() * data.size() > MAX_SEND_QUEUE_SIZE)
\*     if (sendQueue_.size() > 5000) return;
QueueFull(n, dataSize) ==
    n * dataSize > MAX_SEND_QUEUE_SIZE /\ n > MAX_SEND_QUEUE_COUNT

\* Adb::writeToChannel, the part under sendMutex_: the queue after the call
Enqueue(q, data) ==
    IF QueueFull(Len(q), FrameBytes(data))
    THEN q
    ELSE Append(q, data)

\* history: the frames queued once isClosed_ is set, after a push that turned
\* the queue `before' into `after'
LateAccepts(before, after) ==
    IF isClosed_ /\ after # before THEN acceptedAfterClose + 1
    ELSE acceptedAfterClose

\* sendLoop takes the newest frame instead of the oldest
Dequeue_Lifo(q) == [data |-> q[Len(q)], rest |-> SubSeq(q, 1, Len(q) - 1)]

\* Adb::sendLoop: data = std::move(sendQueue_.front()); sendQueue_.pop();
Dequeue(q) == [data |-> Head(q), rest |-> Tail(q)]

\* sendCv_.notify_one() / notify_all(): reaches the sender only if it is parked
Notified == sendNotified \/ sendParked

\* the transport fails every read and write: TcpChannel::close() was called
\* (closed_ is set, the socket is shut down) or the peer went away
TransportBroken == chClosed \/ ~linkUp

G_flags == <<isClosed_, handleInRunning_, sendRunning_, chClosed>>
G_env == <<linkUp>>
G_reg == <<localIdPool_, streams, connectionStreams_, openStreams_>>
G_sendq == <<sendQueue_, sendMutex_, sendParked, sendNotified>>
G_thr == <<sendThread_, handleInThread_>>
G_hist == <<announced, handles, owned, closedIds, closeReturned>>
G_conn == <<connectCall, maxData_>>
G_backlog == <<backlog>>
G_tx == <<txSubmitted, txWritten>>
G_audit == <<acceptedAfterClose, openCount>>

\* Adb::writeToChannel on a queue that holds backlog.count frames of
\* backlog.dataSize bytes each, given one more frame of that size, while the
\* sender is blocked in channel_->write on a peer that does not read: the
\* frames are numbered as they are submitted, `newest' is the number of the
\* last one that was queued
writeToChannel_backlog ==
    /\ ~isClosed_
    /\ sendMutex_ = "none"
    /\ backlog.dataSize > 0
    /\ backlog.submitted < MaxSubmitted
    /\ backlog' =
          IF QueueFull(backlog.count, backlog.dataSize)
          THEN [backlog EXCEPT !.submitted = @ + 1, !.last = "dropped"]
          ELSE [backlog EXCEPT !.submitted = @ + 1, !.count = @ + 1,
                               !.newest = backlog.submitted + 1, !.last = "queued"]
    /\ UNCHANGED <<nativeVars, mgrVars, ringVars, G_conn, G_tx, G_audit, G_flags, G_env, G_reg, G_sendq,
                   G_thr, G_hist, recv, send, app, cl, inbound>>

(* ---- Adb::connect ------------------------------------------------------- *)

\* the messages a peer can answer during the handshake: arg1 of a CNXN is the
\* max payload it advertises, arg0 its protocol version
PeerMessages ==
    {Message(c, a0, a1) : c \in {"AUTH", "CNXN", "OKAY"},
                          a0 \in {1, CONNECT_VERSION},
                          a1 \in {PeerSmallMaxData, CONNECT_MAXDATA, PeerLargeMaxData}}

\* the state after Adb::create(): the constructor has started the sender, no
\* receive thread exists, connect() has not been called
HandshakeInit ==
    /\ RingInit
    /\ NativeIdle
    /\ MgrInit
    /\ isClosed_ = FALSE
    /\ handleInRunning_ = FALSE
    /\ sendRunning_ = TRUE
    /\ chClosed = FALSE
    /\ linkUp = TRUE
    /\ localIdPool_ = 1
    /\ streams = <<>>
    /\ connectionStreams_ = NoEntries
    /\ openStreams_ = NoEntries
    /\ sendQueue_ = <<>>
    /\ sendMutex_ = "none"
    /\ sendParked = FALSE
    /\ sendNotified = FALSE
    /\ sendThread_ = "joinable"
    /\ handleInThread_ = "none"
    /\ recv = RecvAt("notStarted")
    /\ send = [pc |-> "loop", data |-> NoFrame]
    /\ app = [a \in Apps |-> AppIdle]
    /\ cl = [t \in Closers |-> NoCall]
    /\ inbound = 0
    /\ announced = {}
    /\ handles = {}
    /\ owned = {}
    /\ closedIds = {}
    /\ closeReturned = FALSE
    /\ connectCall = ConnIdle
    /\ maxData_ = CONNECT_MAXDATA
    /\ IdleInit

\* what no step of connect() touches
G_notConnect == <<nativeVars, mgrVars, ringVars, G_backlog, G_tx, G_audit, isClosed_, sendRunning_, G_env,
                  G_reg, G_sendq, sendThread_, G_hist, send, app, cl, inbound>>

\* connect() accepts any reply as the final CNXN
IsCnxn_Any(m) == TRUE

\* message.command == AdbProtocol::CMD_CNXN
IsCnxn(m) == m.cmd = "CNXN"

\* the callback is invoked twice
WaitAuthCalls_Twice(c) == c.waitAuthCalls + 2

\* if (onWaitAuth) { onWaitAuth(); }: the invocations so far, after this line
WaitAuthCalls(c) == IF c.onWaitAuth THEN c.waitAuthCalls + 1 ELSE c.waitAuthCalls

\* channel_->close(); return code;
ConnectFails(code) ==
    /\ chClosed' = TRUE
    /\ connectCall' = [connectCall EXCEPT !.pc = "returned", !.result = code]

\* the application calls connect(keyPair, onWaitAuth), with or without a
\* callback
connect_call ==
    /\ connectCall.pc = "idle"
    /\ \E cb \in BOOLEAN :
          connectCall' = [connectCall EXCEPT !.pc = "writeConnect", !.onWaitAuth = cb]
    /\ UNCHANGED <<G_notConnect, maxData_, chClosed, handleInRunning_,
                   handleInThread_, recv>>

\* channel_->write(generateConnect()): a failing write throws out of connect()
connect_writeConnect ==
    /\ connectCall.pc = "writeConnect"
    /\ connectCall' = [connectCall EXCEPT !.pc = IF TransportBroken THEN "threw"
                                                ELSE "read1"]
    /\ UNCHANGED <<G_notConnect, maxData_, chClosed, handleInRunning_,
                   handleInThread_, recv>>

\* message = readMessageFromChannel(channel_, 10000), then the dispatch on
\* message.command: AUTH goes on to the signature, anything but CNXN ends
\* with -1; a read that throws (timeout, error) ends with -4
connect_read1 ==
    /\ connectCall.pc = "read1"
    /\ \/ /\ ~TransportBroken
          /\ \E m \in PeerMessages :
                IF m.cmd = "AUTH"
                THEN /\ connectCall' = [connectCall EXCEPT !.pc = "writeSignature",
                                                           !.message = m]
                     /\ UNCHANGED chClosed
                ELSE IF ~IsCnxn(m)
                THEN /\ chClosed' = TRUE
                     /\ connectCall' = [connectCall EXCEPT !.pc = "returned",
                                                           !.message = m,
                                                           !.result = 0 - 1]
                ELSE /\ connectCall' = [connectCall EXCEPT !.pc = "final",
                                                           !.message = m]
                     /\ UNCHANGED chClosed
       \/ ConnectFails(0 - 4)
    /\ UNCHANGED <<G_notConnect, maxData_, handleInRunning_, handleInThread_, recv>>

\* channel_->write(generateAuth(AUTH_TYPE_SIGNATURE, ..))
connect_writeSignature ==
    /\ connectCall.pc = "writeSignature"
    /\ connectCall' = [connectCall EXCEPT !.pc = IF TransportBroken THEN "threw"
                                                ELSE "read2"]
    /\ UNCHANGED <<G_notConnect, maxData_, chClosed, handleInRunning_,
                   handleInThread_, recv>>

\* message = readMessageFromChannel(channel_, 5000): authFailedOrTimeout is
\* set by a second AUTH and by a read that throws, which leaves `message' as
\* it was
connect_read2 ==
    /\ connectCall.pc = "read2"
    /\ \/ /\ ~TransportBroken
          /\ \E m \in PeerMessages :
                connectCall' = [connectCall EXCEPT !.message = m,
                                   !.pc = IF m.cmd = "AUTH" THEN "writeRsa"
                                          ELSE "final"]
       \/ connectCall' = [connectCall EXCEPT !.pc = "writeRsa"]
    /\ UNCHANGED <<G_notConnect, maxData_, chClosed, handleInRunning_,
                   handleInThread_, recv>>

\* channel_->write(generateAuth(AUTH_TYPE_RSA_PUBLIC, ..))
connect_writeRsa ==
    /\ connectCall.pc = "writeRsa"
    /\ connectCall' = IF TransportBroken
                      THEN [connectCall EXCEPT !.pc = "threw"]
                      ELSE [connectCall EXCEPT !.pc = "onWaitAuth", !.sentRsa = TRUE]
    /\ UNCHANGED <<G_notConnect, maxData_, chClosed, handleInRunning_,
                   handleInThread_, recv>>

\* if (onWaitAuth) { onWaitAuth(); }
connect_onWaitAuth ==
    /\ connectCall.pc = "onWaitAuth"
    /\ connectCall' = [connectCall EXCEPT !.pc = "read3",
                                          !.waitAuthCalls = WaitAuthCalls(connectCall)]
    /\ UNCHANGED <<G_notConnect, maxData_, chClosed, handleInRunning_,
                   handleInThread_, recv>>

\* message = readMessageFromChannel(channel_, 30000): a read that throws ends
\* with -5, a message other than CNXN with -3
connect_read3 ==
    /\ connectCall.pc = "read3"
    /\ \/ /\ ~TransportBroken
          /\ \E m \in PeerMessages :
                IF ~IsCnxn(m)
                THEN /\ chClosed' = TRUE
                     /\ connectCall' = [connectCall EXCEPT !.pc = "returned",
                                                           !.message = m,
                                                           !.result = 0 - 3]
                ELSE /\ connectCall' = [connectCall EXCEPT !.pc = "final",
                                                           !.message = m]
                     /\ UNCHANGED chClosed
       \/ ConnectFails(0 - 5)
    /\ UNCHANGED <<G_notConnect, maxData_, handleInRunning_, handleInThread_, recv>>

\* if (message.command != CMD_CNXN) { channel_->close(); return -1; }
\* maxData_ = message.arg0; handleInRunning_.store(true);
\* handleInThread_ = std::thread(&Adb::handleInLoop, this); return 0;
connect_finish ==
    /\ connectCall.pc = "final"
    /\ IF ~IsCnxn(connectCall.message)
       THEN /\ ConnectFails(0 - 1)
            /\ UNCHANGED <<maxData_, handleInRunning_, handleInThread_, recv>>
       ELSE /\ maxData_' = connectCall.message.arg0
            /\ handleInRunning_' = TRUE
            /\ handleInThread_' = "joinable"
            /\ recv' = RecvAt("loop")
            /\ connectCall' = [connectCall EXCEPT !.pc = "returned", !.result = 0]
            /\ UNCHANGED chClosed
    /\ UNCHANGED G_notConnect

(* ---- the receive thread: Adb::handleInLoop ----------------------------- *)

\* while (handleInRunning_.load() && !isClosed_.load())
handleInLoop_while ==
    /\ recv.pc = "loop"
    /\ recv' = RecvAt(IF handleInRunning_ /\ ~isClosed_
                       THEN "readHeader" ELSE "exited")
    /\ UNCHANGED <<nativeVars, mgrVars, ringVars, G_conn, G_backlog, G_tx, G_audit, G_flags, G_env, G_reg, G_sendq, G_thr, G_hist, send, app, cl,
                   inbound>>

\* channel_->readWithTimeout(headerBuf, 24, -1) returns the peer's next header
handleInLoop_readHeader ==
    /\ recv.pc = "readHeader"
    /\ ~TransportBroken
    /\ inbound < MaxFrames
    /\ \E f \in InboundFrames(announced) :
          recv' = [RecvAt("lookup") EXCEPT !.frame = f, !.remaining = f.len]
    /\ inbound' = inbound + 1
    /\ UNCHANGED <<nativeVars, mgrVars, ringVars, G_conn, G_backlog, G_tx, G_audit, G_flags, G_env, G_reg, G_sendq, G_thr, G_hist, send, app, cl>>

\* the header read throws: catch (...) { if (isClosed_.load()) break; throw; }
handleInLoop_readHeaderThrows ==
    /\ recv.pc = "readHeader"
    /\ TransportBroken
    /\ recv' = RecvAt(IF isClosed_ THEN "exited" ELSE "catch")
    /\ UNCHANGED <<nativeVars, mgrVars, ringVars, G_conn, G_backlog, G_tx, G_audit, G_flags, G_env, G_reg, G_sendq, G_thr, G_hist, send, app, cl,
                   inbound>>

\* if (isClosed_ || !handleInRunning_) break; then, under streamsMutex_:
\* connectionStreams_.find(arg1), else createNewStream(arg1, arg0, arg1 > 0)
handleInLoop_lookup ==
    /\ recv.pc = "lookup"
    /\ IF isClosed_ \/ ~handleInRunning_
       THEN /\ recv' = RecvAt("exited")
            /\ UNCHANGED <<streams, connectionStreams_, openStreams_>>
       ELSE LET f == recv.frame
                found == connectionStreams_[f.arg1] # 0
                o == IF found THEN connectionStreams_[f.arg1] ELSE Len(streams) + 1
            IN  /\ recv' = [recv EXCEPT !.obj = o,
                              !.pc = IF f.cmd = "WRTE" /\ f.len > 0
                                     THEN "zeroCopy" ELSE "normal"]
                /\ IF found
                   THEN UNCHANGED <<streams, connectionStreams_, openStreams_>>
                   ELSE /\ streams' = Append(streams,
                                             AdbStream(f.arg1, f.arg0, f.arg1 > 0))
                        /\ connectionStreams_' =
                               [connectionStreams_ EXCEPT ![f.arg1] = o]
                        /\ openStreams_' = [openStreams_ EXCEPT ![f.arg1] = o]
    /\ UNCHANGED <<nativeVars, mgrVars, ringVars, G_conn, G_backlog, G_tx, G_audit, G_flags, G_env, localIdPool_, G_sendq, G_thr, G_hist, send, app,
                   cl, inbound>>

\* the drop branch reads a whole 4096-byte block whatever is left of the frame
DropSize_Block(remaining) == DROP_CHUNK

\* uint8_t dropBuf[4096]; size_t dropSize = std::min(remaining, sizeof(dropBuf))
DropSize(remaining) == Min(remaining, DROP_CHUNK)

\* one round of the zero-copy loop: getWritePtr; when the buffer is full read
\* and drop min(remaining, 4096) bytes, else read toRead bytes into the
\* buffer and commitWrite(toRead); a failing transport read throws
handleInLoop_zeroCopy ==
    /\ recv.pc = "zeroCopy"
    /\ IF TransportBroken
       THEN /\ recv' = RecvAt("catch")
            /\ UNCHANGED streams
       ELSE LET st == streams[recv.obj]
                avail == WriteAvail(st.rbHead, st.rbTail)
                n == IF avail = 0 THEN DropSize(recv.remaining)
                     ELSE Min(recv.remaining, avail)
            IN  /\ streams' = IF avail = 0 THEN streams
                              ELSE [streams EXCEPT ![recv.obj].rbHead = @ + n]
                /\ recv' = [recv EXCEPT !.remaining = @ - n,
                              !.got = @ + n,
                              !.dropped = IF avail = 0 THEN @ + n ELSE @,
                              !.pc = IF recv.remaining - n = 0 THEN "okay"
                                     ELSE "zeroCopy"]
    /\ UNCHANGED <<nativeVars, mgrVars, ringVars, G_conn, G_backlog, G_tx, G_audit, G_flags, G_env, localIdPool_, connectionStreams_, openStreams_,
                   G_sendq, G_thr, G_hist, send, app, cl, inbound>>

\* writeToChannel(generateOkay(arg1, arg0)): if (isClosed_.load()) return;
handleInLoop_okay ==
    /\ recv.pc = "okay"
    /\ recv' = IF isClosed_ THEN RecvAt("loop") ELSE [recv EXCEPT !.pc = "okayPush"]
    /\ UNCHANGED <<nativeVars, mgrVars, ringVars, G_conn, G_backlog, G_tx, G_audit, G_flags, G_env, G_reg, G_sendq, G_thr, G_hist, send, app, cl,
                   inbound>>

\* writeToChannel: lock_guard(sendMutex_); push; then sendCv_.notify_one()
handleInLoop_okayPush ==
    /\ recv.pc = "okayPush"
    /\ sendMutex_ = "none"
    /\ sendQueue_' = Enqueue(sendQueue_,
                             generateOkay(recv.frame.arg1, recv.frame.arg0))
    /\ recv' = RecvAt("loop")
    /\ sendNotified' = Notified
    /\ acceptedAfterClose' = LateAccepts(sendQueue_, sendQueue_')
    /\ UNCHANGED <<nativeVars, mgrVars, ringVars, G_conn, G_backlog, G_tx, openCount, G_flags, G_env, G_reg, sendMutex_, sendParked, G_thr, G_hist,
                   send, app, cl, inbound>>

\* the CLSE branch: stream->closed = true; stream->readBuffer.close(); the
\* registry entry is left in place
HandleCLSE_Erases(strs, conn, o) ==
    [streams |-> [strs EXCEPT ![o].closed = TRUE, ![o].rbClosed = TRUE],
     conn |-> [conn EXCEPT ![strs[o].localId] = 0]]

\* the CLSE branch closes the ring buffer but leaves the closed flag alone
HandleCLSE_NoFlag(strs, conn, o) ==
    [streams |-> [strs EXCEPT ![o].rbClosed = TRUE], conn |-> conn]

HandleCLSE(strs, conn, o) ==
    [streams |-> [strs EXCEPT ![o].closed = TRUE, ![o].rbClosed = TRUE],
     conn |-> conn]

\* the normal path: read the payload into tempPayload (a failing read throws),
\* then OKAY: stream->canWrite = true; CLSE: see HandleCLSE; else nothing
handleInLoop_normal ==
    /\ recv.pc = "normal"
    /\ IF recv.frame.len > 0 /\ TransportBroken
       THEN /\ recv' = RecvAt("catch")
            /\ UNCHANGED <<streams, connectionStreams_>>
       ELSE /\ recv' = RecvAt("loop")
            /\ CASE recv.frame.cmd = "OKAY" ->
                      /\ streams' = [streams EXCEPT ![recv.obj].canWrite = TRUE]
                      /\ UNCHANGED connectionStreams_
                 [] recv.frame.cmd = "CLSE" ->
                      LET r == HandleCLSE(streams, connectionStreams_, recv.obj) IN
                      /\ streams' = r.streams
                      /\ connectionStreams_' = r.conn
                 [] OTHER -> UNCHANGED <<streams, connectionStreams_>>
    /\ UNCHANGED <<nativeVars, mgrVars, ringVars, G_conn, G_backlog, G_tx, G_audit, G_flags, G_env, localIdPool_, openStreams_, G_sendq, G_thr,
                   G_hist, send, app, cl, inbound>>

\* catch (const std::exception& e) { ...; close(); }
handleInLoop_catch ==
    /\ recv.pc = "catch"
    /\ recv' = RecvAt("closing")
    /\ cl' = [cl EXCEPT !["recv"] = [pc |-> "cas", won |-> FALSE]]
    /\ UNCHANGED <<nativeVars, mgrVars, ringVars, G_conn, G_backlog, G_tx, G_audit, G_flags, G_env, G_reg, G_sendq, G_thr, G_hist, send, app,
                   inbound>>

(* ---- the sender thread: Adb::sendLoop ---------------------------------- *)

\* while (sendRunning_.load())
sendLoop_while ==
    /\ send.pc = "loop"
    /\ send' = [send EXCEPT !.pc = IF sendRunning_ THEN "lock" ELSE "exited"]
    /\ UNCHANGED <<nativeVars, mgrVars, ringVars, G_conn, G_backlog, G_tx, G_audit, G_flags, G_env, G_reg, G_sendq, G_thr, G_hist, recv, app, cl,
                   inbound>>

\* std::unique_lock<std::mutex> lock(sendMutex_)
sendLoop_lock ==
    /\ send.pc = "lock"
    /\ sendMutex_ = "none"
    /\ sendMutex_' = "send"
    /\ send' = [send EXCEPT !.pc = "pred"]
    /\ UNCHANGED <<nativeVars, mgrVars, ringVars, G_conn, G_backlog, G_tx, G_audit, G_flags, G_env, G_reg, sendQueue_, sendParked, sendNotified,
                   G_thr, G_hist, recv, app, cl, inbound>>

\* sendCv_.wait(lock, pred): the predicate,
\* !sendQueue_.empty() || !sendRunning_.load(), evaluated under the mutex
sendLoop_pred ==
    /\ send.pc = "pred"
    /\ send' = [send EXCEPT !.pc = IF sendQueue_ # <<>> \/ ~sendRunning_
                                   THEN "afterWait" ELSE "wait"]
    /\ UNCHANGED <<nativeVars, mgrVars, ringVars, G_conn, G_backlog, G_tx, G_audit, G_flags, G_env, G_reg, G_sendq, G_thr, G_hist, recv, app, cl,
                   inbound>>

\* the predicate was false: wait(lock) releases the mutex and parks the thread
sendLoop_wait ==
    /\ send.pc = "wait"
    /\ sendMutex_' = "none"
    /\ sendParked' = TRUE
    /\ sendNotified' = FALSE
    /\ send' = [send EXCEPT !.pc = "parked"]
    /\ UNCHANGED <<nativeVars, mgrVars, ringVars, G_conn, G_backlog, G_tx, G_audit, G_flags, G_env, G_reg, sendQueue_, G_thr, G_hist, recv, app, cl,
                   inbound>>

\* a notify reached the parked sender: it takes the mutex again
sendLoop_wake ==
    /\ send.pc = "parked"
    /\ sendNotified
    /\ sendMutex_ = "none"
    /\ sendMutex_' = "send"
    /\ sendParked' = FALSE
    /\ sendNotified' = FALSE
    /\ send' = [send EXCEPT !.pc = "pred"]
    /\ UNCHANGED <<nativeVars, mgrVars, ringVars, G_conn, G_backlog, G_tx, G_audit, G_flags, G_env, G_reg, sendQueue_, G_thr, G_hist, recv, app, cl,
                   inbound>>

\* a condition variable may wake without a notify
sendLoop_spuriousWake ==
    /\ send.pc = "parked"
    /\ ~sendNotified
    /\ sendMutex_ = "none"
    /\ sendMutex_' = "send"
    /\ sendParked' = FALSE
    /\ send' = [send EXCEPT !.pc = "pred"]
    /\ UNCHANGED <<nativeVars, mgrVars, ringVars, G_conn, G_backlog, G_tx, G_audit, G_flags, G_env, G_reg, sendQueue_, sendNotified, G_thr, G_hist,
                   recv, app, cl, inbound>>

\* if (!sendRunning_ && sendQueue_.empty()) break;
\* if (!sendQueue_.empty()) { data = front(); pop(); }  then the lock is released
sendLoop_afterWait ==
    /\ send.pc = "afterWait"
    /\ sendMutex_' = "none"
    /\ IF sendQueue_ = <<>>
       THEN /\ send' = [send EXCEPT !.pc = IF ~sendRunning_ THEN "exited" ELSE "loop"]
            /\ UNCHANGED sendQueue_
       ELSE /\ send' = [pc |-> "write", data |-> Dequeue(sendQueue_).data]
            /\ sendQueue_' = Dequeue(sendQueue_).rest
    /\ UNCHANGED <<nativeVars, mgrVars, ringVars, G_conn, G_backlog, G_tx, G_audit, G_flags, G_env, G_reg, sendParked, sendNotified, G_thr, G_hist,
                   recv, app, cl, inbound>>

\* channel_->write(data): the frame goes out; an OPEN frame tells the peer
\* the stream's local id, a WRTE frame carries its bytes of the stream's data
sendLoop_write ==
    /\ send.pc = "write"
    /\ ~TransportBroken
    /\ send' = [pc |-> "loop", data |-> NoFrame]
    /\ announced' = IF send.data.cmd = "OPEN" THEN announced \cup {send.data.arg0}
                    ELSE announced
    /\ txWritten' = IF IsChunk(send.data) THEN send.data.off + send.data.len
                    ELSE txWritten
    /\ UNCHANGED <<nativeVars, mgrVars, ringVars, G_conn, G_backlog, txSubmitted, G_audit, G_flags, G_env, G_reg, G_sendq, G_thr, handles, owned, closedIds,
                   closeReturned, recv, app, cl, inbound>>

\* channel_->write(data) throws: catch { ...; close(); break; }
sendLoop_writeThrows ==
    /\ send.pc \in {"write", "writeBlocked"}
    /\ TransportBroken
    /\ send' = [pc |-> "closing", data |-> NoFrame]
    /\ cl' = [cl EXCEPT !["send"] = [pc |-> "cas", won |-> FALSE]]
    /\ UNCHANGED <<nativeVars, mgrVars, ringVars, G_conn, G_backlog, G_tx, G_audit, G_flags, G_env, G_reg, G_sendq, G_thr, G_hist, recv, app,
                   inbound>>

(* ---- Adb::close(), run by thread t ------------------------------------- *)

\* isClosed_.compare_exchange_strong(expected = false, true): whether this
\* call goes on to shut the session down
CloseProceeds_Always(wasClosed) == TRUE

CloseProceeds(wasClosed) == ~wasClosed

\* if (!isClosed_.compare_exchange_strong(expected, true)) return;
\* handleInRunning_.store(false);
Adb_close_cas(t) ==
    /\ cl[t].pc = "cas"
    /\ isClosed_' = TRUE
    /\ IF CloseProceeds(isClosed_)
       THEN /\ cl' = [cl EXCEPT ![t] = [pc |-> "stopSender", won |-> TRUE]]
            /\ handleInRunning_' = FALSE
       ELSE /\ cl' = [cl EXCEPT ![t] = [pc |-> "ret", won |-> FALSE]]
            /\ UNCHANGED handleInRunning_
    /\ UNCHANGED <<nativeVars, mgrVars, ringVars, G_conn, G_backlog, G_tx, G_audit, sendRunning_, chClosed, G_env, G_reg, G_sendq, G_thr, G_hist,
                   recv, send, app, inbound>>

\* sendRunning_.store(false); sendCv_.notify_all();  (sendMutex_ is not taken)
Adb_close_stopSender(t) ==
    /\ cl[t].pc = "stopSender"
    /\ sendRunning_' = FALSE
    /\ sendNotified' = Notified
    /\ cl' = [cl EXCEPT ![t].pc = "joinSend"]
    /\ UNCHANGED <<nativeVars, mgrVars, ringVars, G_conn, G_backlog, G_tx, G_audit, isClosed_, handleInRunning_, chClosed, G_env, G_reg, sendQueue_,
                   sendMutex_, sendParked, G_thr, G_hist, recv, send, app, inbound>>

\* if (sendThread_.joinable()) { if (this thread is not the sender)
\* sendThread_.join(); else sendThread_.detach(); }
Adb_close_joinSend(t) ==
    /\ cl[t].pc = "joinSend"
    /\ IF sendThread_ # "joinable"
       THEN UNCHANGED sendThread_
       ELSE IF t = "send"
            THEN sendThread_' = "detached"
            ELSE /\ send.pc = "exited"
                 /\ sendThread_' = "joined"
    /\ cl' = [cl EXCEPT ![t].pc = "chClose"]
    /\ UNCHANGED <<nativeVars, mgrVars, ringVars, G_conn, G_backlog, G_tx, G_audit, G_flags, G_env, G_reg, G_sendq, handleInThread_, G_hist, recv,
                   send, app, inbound>>

\* if (channel_) channel_->close(); notifyAll();
Adb_close_chClose(t) ==
    /\ cl[t].pc = "chClose"
    /\ chClosed' = TRUE
    /\ cl' = [cl EXCEPT ![t].pc = "joinRecv"]
    /\ UNCHANGED <<nativeVars, mgrVars, ringVars, G_conn, G_backlog, G_tx, G_audit, isClosed_, handleInRunning_, sendRunning_, G_env, G_reg, G_sendq,
                   G_thr, G_hist, recv, send, app, inbound>>

\* if (handleInThread_.joinable()) { if (this thread is not the receive thread)
\* handleInThread_.join(); else handleInThread_.detach(); }
Adb_close_joinRecv(t) ==
    /\ cl[t].pc = "joinRecv"
    /\ IF handleInThread_ # "joinable"
       THEN UNCHANGED handleInThread_
       ELSE IF t = "recv"
            THEN handleInThread_' = "detached"
            ELSE /\ recv.pc = "exited"
                 /\ handleInThread_' = "joined"
    /\ cl' = [cl EXCEPT ![t].pc = "cleanup"]
    /\ UNCHANGED <<nativeVars, mgrVars, ringVars, G_conn, G_backlog, G_tx, G_audit, G_flags, G_env, G_reg, G_sendq, sendThread_, G_hist, recv, send,
                   app, inbound>>

\* under streamsMutex_: delete every stream of openStreams_; clear both maps
Adb_close_cleanup(t) ==
    /\ cl[t].pc = "cleanup"
    /\ streams' = [o \in 1..Len(streams) |->
                      IF \E i \in Ids : openStreams_[i] = o
                      THEN [streams[o] EXCEPT !.freed = TRUE] ELSE streams[o]]
    /\ openStreams_' = NoEntries
    /\ connectionStreams_' = NoEntries
    /\ cl' = [cl EXCEPT ![t].pc = "ret"]
    /\ UNCHANGED <<nativeVars, mgrVars, ringVars, G_conn, G_backlog, G_tx, G_audit, G_flags, G_env, localIdPool_, G_sendq, G_thr, G_hist, recv, send,
                   app, inbound>>

\* close() returns to its caller: a worker thread then leaves its loop and ends
Adb_close_return(t) ==
    /\ cl[t].pc = "ret"
    /\ cl' = [cl EXCEPT ![t] = NoCall]
    /\ closeReturned' = (closeReturned \/ cl[t].won)
    /\ recv' = IF t = "recv" THEN RecvAt("exited") ELSE recv
    /\ send' = IF t = "send" THEN [send EXCEPT !.pc = "exited"] ELSE send
    /\ UNCHANGED <<nativeVars, mgrVars, ringVars, G_conn, G_backlog, G_tx, G_audit, G_flags, G_env, G_reg, G_sendq, G_thr, announced, handles,
                   owned, closedIds, app, inbound>>

\* the application calls Adb::close()
Adb_close_call ==
    /\ cl["app2"].pc = "none"
    /\ cl' = [cl EXCEPT !["app2"] = [pc |-> "cas", won |-> FALSE]]
    /\ UNCHANGED <<nativeVars, mgrVars, ringVars, G_conn, G_backlog, G_tx, G_audit, G_flags, G_env, G_reg, G_sendq, G_thr, G_hist, recv, send, app,
                   inbound>>

(* ---- the environment --------------------------------------------------- *)

\* the peer goes away: every later read and write on the socket fails
PeerDisconnects ==
    /\ linkUp
    /\ linkUp' = FALSE
    /\ UNCHANGED <<nativeVars, mgrVars, ringVars, G_conn, G_backlog, G_tx, G_audit, G_flags, G_reg, G_sendq, G_thr, G_hist, recv, send,
                   app, cl, inbound>>

\* the peer stops draining the socket while the sender is inside ::send, which
\* then blocks
PeerStalls ==
    /\ send.pc = "write"
    /\ ~TransportBroken
    /\ send' = [send EXCEPT !.pc = "writeBlocked"]
    /\ UNCHANGED <<nativeVars, mgrVars, ringVars, G_conn, G_backlog, G_tx, G_audit, G_flags, G_env, G_reg, G_sendq, G_thr, G_hist, recv, app, cl,
                   inbound>>

\* the peer drains the socket again: ::send goes on
PeerDrains ==
    /\ send.pc = "writeBlocked"
    /\ send' = [send EXCEPT !.pc = "write"]
    /\ UNCHANGED <<nativeVars, mgrVars, ringVars, G_conn, G_backlog, G_tx, G_audit, G_flags, G_env, G_reg, G_sendq, G_thr, G_hist, recv, app, cl,
                   inbound>>

(* ---- the application: Adb::open ---------------------------------------- *)

\* the call has ended: `result' is what the caller got
Done(a, result) ==
    [AppIdle EXCEPT !.pc = "done", !.op = app[a].op, !.id = app[a].id,
                    !.totalRead = app[a].totalRead, !.result = result,
                    !.afterClose = app[a].afterClose]

\* int32_t localId = localIdPool_++; if (!canMultipleSend) localId = -localId;
\* writeToChannel(generateOpen(localId, destination)): if (isClosed_) return;
open_call(a) ==
    /\ app[a].pc = "idle"
    /\ localIdPool_ <= MaxOpens
    /\ \E canMultipleSend \in BOOLEAN :
          app' = [app EXCEPT ![a] =
                     [AppIdle EXCEPT !.pc = IF isClosed_ THEN "open_poll"
                                            ELSE "open_push",
                                     !.op = "open",
                                     !.id = IF canMultipleSend THEN localIdPool_
                                            ELSE 0 - localIdPool_]]
    /\ localIdPool_' = localIdPool_ + 1
    /\ UNCHANGED <<nativeVars, mgrVars, ringVars, G_conn, G_backlog, G_tx, G_audit, G_flags, G_env, streams, connectionStreams_, openStreams_,
                   G_sendq, G_thr, G_hist, recv, send, cl, inbound>>

\* int32_t localId = localIdPool_++, with other threads inside open() at the
\* same time: localIdPool_ is a plain int32_t that open() touches outside of
\* every mutex, so the increment is a load ...
open_load(a) ==
    /\ app[a].pc = "idle"
    /\ localIdPool_ <= MaxOpens
    /\ \E canMultipleSend \in BOOLEAN :
          app' = [app EXCEPT ![a] =
                     [AppIdle EXCEPT !.pc = "open_store",
                                     !.op = "open",
                                     !.id = IF canMultipleSend THEN localIdPool_
                                            ELSE 0 - localIdPool_]]
    /\ UNCHANGED <<nativeVars, mgrVars, ringVars, G_conn, G_backlog, G_tx, G_audit, G_flags, G_env, G_reg,
                   G_sendq, G_thr, G_hist, recv, send, cl, inbound>>

\* ... followed by a store of the loaded value plus one; then
\* writeToChannel(generateOpen(localId, destination)): if (isClosed_) return;
open_store(a) ==
    /\ app[a].pc = "open_store"
    /\ localIdPool_' = (IF app[a].id > 0 THEN app[a].id ELSE 0 - app[a].id) + 1
    /\ app' = [app EXCEPT ![a].pc = IF isClosed_ THEN "open_poll" ELSE "open_push"]
    /\ UNCHANGED <<nativeVars, mgrVars, ringVars, G_conn, G_backlog, G_tx, G_audit, G_flags, G_env, streams,
                   connectionStreams_, openStreams_, G_sendq, G_thr, G_hist, recv,
                   send, cl, inbound>>

\* writeToChannel: lock_guard(sendMutex_); push; then sendCv_.notify_one();
\* the destination is "shell:", 6 characters
open_push(a) ==
    /\ app[a].pc = "open_push"
    /\ sendMutex_ = "none"
    /\ sendQueue_' = Enqueue(sendQueue_, generateOpen(app[a].id, 6))
    /\ sendNotified' = Notified
    /\ app' = [app EXCEPT ![a].pc = "open_poll"]
    /\ acceptedAfterClose' = LateAccepts(sendQueue_, sendQueue_')
    /\ UNCHANGED <<nativeVars, mgrVars, ringVars, G_conn, G_backlog, G_tx, openCount, G_flags, G_env, G_reg, sendMutex_, sendParked, G_thr, G_hist,
                   recv, send, cl, inbound>>

\* while (!isClosed_) { if openStreams_ has localId: take it, erase it, break;
\* waitCv_.wait_for(100ms); }  if (!stream) throw "Failed to open stream";
\* a round that finds nothing changes nothing but the time
open_poll(a) ==
    /\ app[a].pc = "open_poll"
    /\ isClosed_ \/ openStreams_[app[a].id] # 0
    /\ IF isClosed_
       THEN /\ app' = [app EXCEPT ![a] = Done(a, "openFailed")]
            /\ UNCHANGED openStreams_
       ELSE /\ app' = [app EXCEPT ![a].pc = "open_check",
                                  ![a].obj = openStreams_[app[a].id]]
            /\ openStreams_' = [openStreams_ EXCEPT ![app[a].id] = 0]
    /\ UNCHANGED <<nativeVars, mgrVars, ringVars, G_conn, G_backlog, G_tx, G_audit, G_flags, G_env, localIdPool_, streams, connectionStreams_,
                   G_sendq, G_thr, G_hist, recv, send, cl, inbound>>

\* if (stream->closed) { erase connectionStreams_[localId]; delete stream;
\* throw "Stream connection refused"; }  return localId;
open_check(a) ==
    /\ app[a].pc = "open_check"
    /\ IF streams[app[a].obj].closed
       THEN /\ connectionStreams_' = [connectionStreams_ EXCEPT ![app[a].id] = 0]
            /\ streams' = [streams EXCEPT ![app[a].obj].freed = TRUE]
            /\ app' = [app EXCEPT ![a] = Done(a, "openRefused")]
            /\ UNCHANGED <<handles, owned>>
       ELSE /\ app' = [app EXCEPT ![a] = Done(a, "opened")]
            /\ handles' = handles \cup {app[a].id}
            /\ owned' = IF app[a].id > 0 THEN owned \cup {app[a].id} ELSE owned
            /\ UNCHANGED <<connectionStreams_, streams>>
    /\ openCount' = IF streams[app[a].obj].closed THEN openCount
                    ELSE [openCount EXCEPT ![app[a].id] = @ + 1]
    /\ UNCHANGED <<nativeVars, mgrVars, ringVars, G_conn, G_backlog, G_tx, acceptedAfterClose, G_flags, G_env, localIdPool_, openStreams_, G_sendq, G_thr,
                   closedIds, closeReturned, announced, recv, send, cl, inbound>>

(* ---- the application: Adb::streamClose --------------------------------- *)

\* under streamsMutex_: find streamId in connectionStreams_ and erase it
streamClose_call(a) ==
    /\ app[a].pc = "idle"
    /\ \E streamId \in handles :
          /\ owned' = owned \ {streamId}
          /\ IF connectionStreams_[streamId] # 0
             THEN /\ app' = [app EXCEPT ![a] =
                                [AppIdle EXCEPT !.pc = "sc_wtc", !.op = "streamClose",
                                                !.id = streamId,
                                                !.obj = connectionStreams_[streamId]]]
                  /\ connectionStreams_' = [connectionStreams_ EXCEPT ![streamId] = 0]
                  /\ UNCHANGED closedIds
             ELSE /\ app' = [app EXCEPT ![a] =
                                [AppIdle EXCEPT !.pc = "done", !.op = "streamClose",
                                                !.id = streamId, !.result = "closed"]]
                  /\ closedIds' = closedIds \cup {streamId}
                  /\ UNCHANGED connectionStreams_
    /\ UNCHANGED <<nativeVars, mgrVars, ringVars, G_conn, G_backlog, G_tx, G_audit, G_flags, G_env, localIdPool_, streams, openStreams_, G_sendq,
                   G_thr, handles, closeReturned, announced, recv, send, cl, inbound>>

\* writeToChannel(generateClose(localId, remoteId)): if (isClosed_) return;
streamClose_wtc(a) ==
    /\ app[a].pc = "sc_wtc"
    /\ app' = [app EXCEPT ![a].pc = IF isClosed_ THEN "sc_mark" ELSE "sc_push"]
    /\ UNCHANGED <<nativeVars, mgrVars, ringVars, G_conn, G_backlog, G_tx, G_audit, G_flags, G_env, G_reg, G_sendq, G_thr, G_hist, recv, send, cl,
                   inbound>>

\* writeToChannel: lock_guard(sendMutex_); push; then sendCv_.notify_one()
streamClose_push(a) ==
    /\ app[a].pc = "sc_push"
    /\ sendMutex_ = "none"
    /\ sendQueue_' = Enqueue(sendQueue_,
                             generateClose(streams[app[a].obj].localId,
                                           streams[app[a].obj].remoteId))
    /\ sendNotified' = Notified
    /\ app' = [app EXCEPT ![a].pc = "sc_mark"]
    /\ acceptedAfterClose' = LateAccepts(sendQueue_, sendQueue_')
    /\ UNCHANGED <<nativeVars, mgrVars, ringVars, G_conn, G_backlog, G_tx, openCount, G_flags, G_env, G_reg, sendMutex_, sendParked, G_thr, G_hist,
                   recv, send, cl, inbound>>

\* stream->closed = true; stream->readBuffer.close();
streamClose_mark(a) ==
    /\ app[a].pc = "sc_mark"
    /\ streams' = [streams EXCEPT ![app[a].obj].closed = TRUE,
                                  ![app[a].obj].rbClosed = TRUE]
    /\ app' = [app EXCEPT ![a] = Done(a, "closed")]
    /\ closedIds' = closedIds \cup {app[a].id}
    /\ UNCHANGED <<nativeVars, mgrVars, ringVars, G_conn, G_backlog, G_tx, G_audit, G_flags, G_env, localIdPool_, connectionStreams_, openStreams_,
                   G_sendq, G_thr, handles, owned, closeReturned, announced, recv,
                   send, cl, inbound>>

(* ---- the application: Adb::streamWrite / Adb::streamWriteRaw ----------- *)

\* std::min(static_cast<size_t>(maxData_ - 128), len - offset), `rest' being
\* len - offset: the subtraction is done on uint32_t, so that below 128 it
\* wraps to a value of at least 2^32 - 128, which is above every `rest' here
ChunkSize(rest) ==
    IF maxData_ >= CHUNK_RESERVE THEN Min(maxData_ - CHUNK_RESERVE, rest) ELSE rest

\* under streamsMutex_: find streamId; if (!stream) throw "Stream not found";
streamWrite_call(a) ==
    /\ app[a].pc = "idle"
    /\ \E streamId \in handles, len \in 1..MaxWriteLen :
          /\ txSubmitted + len <= MaxWriteBytes
          /\ app' = [app EXCEPT ![a] =
                        IF connectionStreams_[streamId] = 0
                        THEN [AppIdle EXCEPT !.pc = "done", !.op = "streamWrite",
                                             !.id = streamId, !.result = "notFound"]
                        ELSE [AppIdle EXCEPT !.pc = "sw_while", !.op = "streamWrite",
                                             !.id = streamId,
                                             !.obj = connectionStreams_[streamId],
                                             !.size = len]]
    /\ UNCHANGED <<nativeVars, mgrVars, ringVars, G_conn, G_backlog, G_tx, G_audit, G_flags, G_env, G_reg,
                   G_sendq, G_thr, G_hist, recv, send, cl, inbound>>

\* while (offset < len) { chunkSize = min(maxData_ - 128, len - offset);
\* writeToChannel(generateWrite(..)): if (isClosed_.load()) return;
\* offset += chunkSize; }
streamWriteRaw_while(a) ==
    /\ app[a].pc = "sw_while"
    /\ LET chunkSize == ChunkSize(app[a].size - app[a].offset) IN
       IF app[a].offset >= app[a].size
       THEN /\ app' = [app EXCEPT ![a] = Done(a, "written")]
            /\ UNCHANGED txSubmitted
       ELSE IF isClosed_
       THEN /\ app' = [app EXCEPT ![a].offset = @ + chunkSize]
            /\ txSubmitted' = txSubmitted + chunkSize
       ELSE /\ app' = [app EXCEPT ![a].pc = "sw_push"]
            /\ UNCHANGED txSubmitted
    /\ UNCHANGED <<nativeVars, mgrVars, ringVars, G_conn, G_backlog, txWritten, G_audit, G_flags, G_env, G_reg,
                   G_sendq, G_thr, G_hist, recv, send, cl, inbound>>

\* writeToChannel: lock_guard(sendMutex_); push; then sendCv_.notify_one();
\* back in streamWriteRaw: offset += chunkSize
streamWriteRaw_push(a) ==
    /\ app[a].pc = "sw_push"
    /\ sendMutex_ = "none"
    /\ LET chunkSize == ChunkSize(app[a].size - app[a].offset)
           st == streams[app[a].obj]
       IN  /\ sendQueue_' = Enqueue(sendQueue_,
                                    generateWrite(st.localId, st.remoteId,
                                                  txSubmitted, chunkSize))
           /\ txSubmitted' = txSubmitted + chunkSize
           /\ app' = [app EXCEPT ![a].pc = "sw_while", ![a].offset = @ + chunkSize]
    /\ sendNotified' = Notified
    /\ acceptedAfterClose' = LateAccepts(sendQueue_, sendQueue_')
    /\ UNCHANGED <<nativeVars, mgrVars, ringVars, G_conn, G_backlog, txWritten, openCount, G_flags, G_env,
                   G_reg, sendMutex_, sendParked, G_thr, G_hist, recv, send, cl,
                   inbound>>

(* ---- the application: Adb::streamRead / Adb::streamReadToBuffer -------- *)

\* bytes available in the stream's ring buffer
RbSize(o) == streams[o].rbHead - streams[o].rbTail

\* the read ends because the ring buffer is closed and empty:
\* if (!exact && totalRead > 0) break; throw "Stream closed";
ClosedOutcome(a) ==
    IF ~app[a].exact /\ app[a].totalRead > 0 THEN "data" ELSE "streamClosed"

\* the read ends on a timeout that elapsed (timeoutMs > 0):
\* if (!exact && totalRead > 0) break; throw "Stream read timeout";
TimeoutOutcome(a) ==
    IF ~app[a].exact /\ app[a].totalRead > 0 THEN "data" ELSE "timeout"

\* under streamsMutex_: find streamId; if (!stream) throw "Stream not found";
streamRead_call(a) ==
    /\ app[a].pc = "idle"
    /\ \E streamId \in handles, sz \in 1..MaxReadSize, timeoutMs \in Timeouts,
          exact \in BOOLEAN :
          app' = [app EXCEPT ![a] =
                     IF connectionStreams_[streamId] = 0
                     THEN [AppIdle EXCEPT !.pc = "done", !.op = "streamRead",
                                          !.id = streamId, !.result = "notFound",
                                          !.afterClose = streamId \in closedIds]
                     ELSE [AppIdle EXCEPT !.pc = "sr_wait", !.op = "streamRead",
                                          !.id = streamId,
                                          !.obj = connectionStreams_[streamId],
                                          !.size = sz, !.timeoutMs = timeoutMs,
                                          !.exact = exact,
                                          !.afterClose = streamId \in closedIds]]
    /\ UNCHANGED <<nativeVars, mgrVars, ringVars, G_conn, G_backlog, G_tx, G_audit, G_flags, G_env, G_reg, G_sendq, G_thr, G_hist, recv, send, cl,
                   inbound>>

\* while (totalRead < size): hasData = readBuffer.waitForData(1, timeoutMs),
\* up to the point where the thread parks; without data:
\*   closed: ClosedOutcome; timeoutMs == 0: if (!exact) break; throw
streamRead_wait(a) ==
    /\ app[a].pc = "sr_wait"
    /\ app' = [app EXCEPT ![a] =
                  IF RbSize(app[a].obj) >= 1 THEN [app[a] EXCEPT !.pc = "sr_copy"]
                  ELSE IF streams[app[a].obj].rbClosed THEN Done(a, ClosedOutcome(a))
                  ELSE IF app[a].timeoutMs = 0
                       THEN Done(a, IF app[a].exact THEN "timeout"
                                    ELSE IF app[a].totalRead > 0 THEN "data"
                                    ELSE "empty")
                  ELSE [app[a] EXCEPT !.pc = "sr_parked"]]
    /\ UNCHANGED <<nativeVars, mgrVars, ringVars, G_conn, G_backlog, G_tx, G_audit, G_flags, G_env, G_reg, G_sendq, G_thr, G_hist, recv, send, cl,
                   inbound>>

\* the parked reader is woken by commitWrite or by RingBuffer::close; woken by
\* close without data, waitForData returns false (timeoutMs < 0) or true
\* (timeoutMs > 0) and then copyTo returns 0: both end in ClosedOutcome
streamRead_wake(a) ==
    /\ app[a].pc = "sr_parked"
    /\ RbSize(app[a].obj) >= 1 \/ streams[app[a].obj].rbClosed
    /\ app' = [app EXCEPT ![a] =
                  IF RbSize(app[a].obj) >= 1 THEN [app[a] EXCEPT !.pc = "sr_copy"]
                  ELSE Done(a, ClosedOutcome(a))]
    /\ UNCHANGED <<nativeVars, mgrVars, ringVars, G_conn, G_backlog, G_tx, G_audit, G_flags, G_env, G_reg, G_sendq, G_thr, G_hist, recv, send, cl,
                   inbound>>

\* cv_.wait_for times out with the predicate false: waitForData returns false
streamRead_timeout(a) ==
    /\ app[a].pc = "sr_parked"
    /\ app[a].timeoutMs > 0
    /\ RbSize(app[a].obj) = 0
    /\ ~streams[app[a].obj].rbClosed
    /\ app' = [app EXCEPT ![a] = Done(a, TimeoutOutcome(a))]
    /\ UNCHANGED <<nativeVars, mgrVars, ringVars, G_conn, G_backlog, G_tx, G_audit, G_flags, G_env, G_reg, G_sendq, G_thr, G_hist, recv, send, cl,
                   inbound>>

\* n = readBuffer.copyTo(dst + totalRead, needed); totalRead += n;
\* if (!exact && n > 0) break; then, when timeoutMs > 0 and more is needed,
\* the elapsed time may have used the timeout up: throw "Stream read timeout"
streamRead_copy(a) ==
    /\ app[a].pc = "sr_copy"
    /\ LET n == Min(app[a].size - app[a].totalRead, RbSize(app[a].obj))
           total == app[a].totalRead + n
       IN  /\ streams' = [streams EXCEPT ![app[a].obj].rbTail = @ + n]
           /\ \E elapsed \in BOOLEAN :
                 app' = [app EXCEPT ![a] =
                    IF n = 0 /\ streams[app[a].obj].rbClosed
                    THEN Done(a, ClosedOutcome(a))
                    ELSE IF (~app[a].exact /\ n > 0) \/ total >= app[a].size
                    THEN [Done(a, "data") EXCEPT !.totalRead = total]
                    ELSE IF app[a].timeoutMs > 0 /\ elapsed
                    THEN [Done(a, "timeout") EXCEPT !.totalRead = total]
                    ELSE [app[a] EXCEPT !.pc = "sr_wait", !.totalRead = total]]
    /\ UNCHANGED <<nativeVars, mgrVars, ringVars, G_conn, G_backlog, G_tx, G_audit, G_flags, G_env, localIdPool_, connectionStreams_, openStreams_,
                   G_sendq, G_thr, G_hist, recv, send, cl, inbound>>

\* the outcomes of a read that touches an AdbStream already deleted
FreedOutcomes == {"data", "streamClosed", "timeout", "crash"}

\* the reader holds a pointer to an AdbStream that Adb::close() has deleted in
\* the meantime: its next access is undefined behaviour, with any outcome
streamRead_freed(a) ==
    /\ app[a].pc \in {"sr_wait", "sr_parked", "sr_copy"}
    /\ streams[app[a].obj].freed
    /\ \E r \in FreedOutcomes : app' = [app EXCEPT ![a] = Done(a, r)]
    /\ UNCHANGED <<nativeVars, mgrVars, ringVars, G_conn, G_backlog, G_tx, G_audit, G_flags, G_env, G_reg, G_sendq, G_thr, G_hist, recv,
                   send, cl, inbound>>

\* the caller takes the result of open, streamClose or streamRead
app_return(a) ==
    /\ app[a].pc = "done"
    /\ app' = [app EXCEPT ![a] = AppIdle]
    /\ UNCHANGED <<nativeVars, mgrVars, ringVars, G_conn, G_backlog, G_tx, G_audit, G_flags, G_env, G_reg, G_sendq, G_thr, G_hist, recv, send, cl,
                   inbound>>

(* ---- the specifications ------------------------------------------------ *)

\* the receive thread
RecvStep ==
    \/ handleInLoop_while
    \/ handleInLoop_readHeader
    \/ handleInLoop_readHeaderThrows
    \/ handleInLoop_lookup
    \/ handleInLoop_zeroCopy
    \/ handleInLoop_okay
    \/ handleInLoop_okayPush
    \/ handleInLoop_normal
    \/ handleInLoop_catch

\* the sender thread over a transport that takes every frame
SendStep ==
    \/ sendLoop_while
    \/ sendLoop_lock
    \/ sendLoop_pred
    \/ sendLoop_wait
    \/ sendLoop_wake
    \/ sendLoop_spuriousWake
    \/ sendLoop_afterWait
    \/ sendLoop_write

\* a running close() call
CloseStep ==
    \E t \in Closers :
        \/ Adb_close_cas(t)
        \/ Adb_close_stopSender(t)
        \/ Adb_close_joinSend(t)
        \/ Adb_close_chClose(t)
        \/ Adb_close_joinRecv(t)
        \/ Adb_close_cleanup(t)
        \/ Adb_close_return(t)

\* the application opens streams
OpenStep ==
    \E a \in Apps :
        \/ open_call(a)
        \/ open_push(a)
        \/ open_poll(a)
        \/ open_check(a)
        \/ app_return(a)

\* the application reads and closes the streams it has opened
StreamStep ==
    \E a \in Apps :
        \/ streamClose_call(a)
        \/ streamClose_wtc(a)
        \/ streamClose_push(a)
        \/ streamClose_mark(a)
        \/ streamRead_call(a)
        \/ streamRead_wait(a)
        \/ streamRead_wake(a)
        \/ streamRead_timeout(a)
        \/ streamRead_copy(a)
        \/ streamRead_freed(a)

\* the transport fails or stalls under the worker threads
FailureStep ==
    \/ PeerDisconnects
    \/ PeerStalls
    \/ PeerDrains
    \/ sendLoop_writeThrows

\* every specification starts from a fresh ring buffer and a connected session
Init == RingInit /\ NativeIdle /\ MgrInit /\ AdbInit /\ ConnectedInit /\ IdleInit

AdbNext ==
    \/ RecvStep
    \/ SendStep
    \/ CloseStep
    \/ Adb_close_call
    \/ OpenStep
    \/ StreamStep

\* a session whose application opens, reads and closes streams and closes the
\* session, over a transport that fails only once the session closes it
Spec == Init /\ [][AdbNext]_vars

ShutdownNext ==
    \/ RecvStep
    \/ SendStep
    \/ FailureStep
    \/ CloseStep
    \/ Adb_close_call
    \/ OpenStep

\* a step that a thread of the process can take with nothing arriving from
\* outside: no new frame header, no change of the peer, no spurious wakeup and
\* no new call by the application
ThreadStep ==
    \/ handleInLoop_while
    \/ handleInLoop_readHeaderThrows
    \/ handleInLoop_lookup
    \/ handleInLoop_zeroCopy
    \/ handleInLoop_okay
    \/ handleInLoop_okayPush
    \/ handleInLoop_normal
    \/ handleInLoop_catch
    \/ sendLoop_while
    \/ sendLoop_lock
    \/ sendLoop_pred
    \/ sendLoop_wait
    \/ sendLoop_wake
    \/ sendLoop_afterWait
    \/ sendLoop_write
    \/ sendLoop_writeThrows
    \/ CloseStep
    \/ \E a \in Apps : open_push(a) \/ open_poll(a) \/ open_check(a) \/ app_return(a)

\* a session whose transport can fail or stall at any moment, so that either
\* worker thread can be the one that calls close()
ShutdownSpec == Init /\ [][ShutdownNext]_vars

\* the application writes on its stream
WriteStep ==
    \E a \in Apps :
        \/ streamWrite_call(a)
        \/ streamWriteRaw_while(a)
        \/ streamWriteRaw_push(a)
        \/ app_return(a)

TransferNext ==
    \/ handleInLoop_while
    \/ handleInLoop_readHeader
    \/ handleInLoop_lookup
    \/ handleInLoop_zeroCopy
    \/ handleInLoop_okay
    \/ handleInLoop_okayPush
    \/ handleInLoop_normal
    \/ SendStep
    \/ WriteStep

\* an open stream carrying data both ways: the peer sends frames on it while
\* the application writes on it
TransferSpec == TransferInit /\ [][TransferNext]_vars

\* a connected session whose queue starts empty and receives frames of one
\* size
BacklogInit ==
    /\ RingInit
    /\ NativeIdle
    /\ MgrInit
    /\ AdbInit
    /\ ConnectedInit
    /\ \E sz \in BacklogFrameSizes : backlog = [NoBacklog EXCEPT !.dataSize = sz]
    /\ txSubmitted = 0
    /\ txWritten = 0
    /\ acceptedAfterClose = 0
    /\ openCount = [i \in Ids |-> 0]

\* the send queue filling up behind a sender that cannot write
BacklogSpec == BacklogInit /\ [][writeToChannel_backlog]_vars

\* a connected session used by two application threads
OpenInit ==
    /\ RingInit
    /\ NativeIdle
    /\ MgrInit
    /\ isClosed_ = FALSE
    /\ handleInRunning_ = TRUE
    /\ sendRunning_ = TRUE
    /\ chClosed = FALSE
    /\ linkUp = TRUE
    /\ localIdPool_ = 1
    /\ streams = <<>>
    /\ connectionStreams_ = NoEntries
    /\ openStreams_ = NoEntries
    /\ sendQueue_ = <<>>
    /\ sendMutex_ = "none"
    /\ sendParked = FALSE
    /\ sendNotified = FALSE
    /\ sendThread_ = "joinable"
    /\ handleInThread_ = "joinable"
    /\ recv = RecvAt("loop")
    /\ send = [pc |-> "loop", data |-> NoFrame]
    /\ app = [a \in Openers |-> AppIdle]
    /\ cl = [t \in Closers |-> NoCall]
    /\ inbound = 0
    /\ announced = {}
    /\ handles = {}
    /\ owned = {}
    /\ closedIds = {}
    /\ closeReturned = FALSE
    /\ ConnectedInit
    /\ IdleInit

\* the application threads open streams and close the streams they opened
ConcurrentOpenStep ==
    \E a \in Openers :
        \/ open_load(a)
        \/ open_store(a)
        \/ open_push(a)
        \/ open_poll(a)
        \/ open_check(a)
        \/ streamClose_call(a)
        \/ streamClose_wtc(a)
        \/ streamClose_push(a)
        \/ streamClose_mark(a)
        \/ app_return(a)

OpenNext ==
    \/ handleInLoop_while
    \/ handleInLoop_readHeader
    \/ handleInLoop_lookup
    \/ handleInLoop_zeroCopy
    \/ handleInLoop_okay
    \/ handleInLoop_okayPush
    \/ handleInLoop_normal
    \/ SendStep
    \/ ConcurrentOpenStep

\* a session on which two threads call open() with nothing to order them
OpenSpec == OpenInit /\ [][OpenNext]_vars

HandshakeNext ==
    \/ connect_call
    \/ connect_writeConnect
    \/ connect_read1
    \/ connect_writeSignature
    \/ connect_read2
    \/ connect_writeRsa
    \/ connect_onWaitAuth
    \/ connect_read3
    \/ connect_finish
    \/ PeerDisconnects

\* one connect() call on a fresh session, against a peer that answers with
\* any message, is slow to answer, or goes away
HandshakeSpec == HandshakeInit /\ [][HandshakeNext]_vars

ProducerNext ==
    \/ getWritePtr
    \/ ProducerStoreByte
    \/ commitWrite_store
    \/ commitWrite_loadWaiting
    \/ commitWrite_notify

ConsumerNext ==
    \/ getReadPtr
    \/ ConsumerLoadByte
    \/ consumeRead
    \/ waitForData_fastPath
    \/ waitForData_checkClosed
    \/ waitForData_setWaiting
    \/ waitForData_recheckSize
    \/ waitForData_recheckClosed
    \/ waitForData_recheckExit
    \/ waitForData_predSize
    \/ waitForData_predClosed
    \/ waitForData_predReady
    \/ waitForData_wake
    \/ waitForData_spuriousWake
    \/ waitForData_timeout
    \/ waitForData_timedOutSize
    \/ waitForData_timedOutClosed
    \/ waitForData_return

CloserNext ==
    \/ RingBuffer_close_store
    \/ RingBuffer_close_notify

RingNext == ProducerNext \/ ConsumerNext \/ CloserNext


\* one ring buffer with its producer, its consumer and a closing thread
RingSpec == Init /\ [][RingNext]_vars

(***************************************************************************)
(* ScrcpyStreamManager: the reads of the framer threads, the device, and   *)
(* start() and stop().                                                     *)
(***************************************************************************)
\* the session's own variables: the manager is modelled against the media
\* streams' objects (mediaObjs, mediaReg), not against these
notMgr == <<ringVars, adbVars, nativeVars>>

\* ScrcpyStreamManager::emitEvent: the callback gets (type, data)
emitEvent(type, data) == Append(events, [type |-> type, data |-> data])

\* a framer enters a read of `size' bytes
EnterRead(f, pc, sz, timed, ret, onThrow) ==
    [f EXCEPT !.pc = pc, !.want = sz, !.got = <<>>, !.obj = 0, !.timed = timed,
              !.ret = ret, !.onThrow = onThrow]
\* ScrcpyStreamManager::readExact: checks running_ and adb_, then streamRead;
\* its exceptions land in the catch block of the thread function
readExact(f, sz, timed, ret) == EnterRead(f, "check", sz, timed, ret, "catch")
\* a direct call of Adb::streamReadToBuffer(id, dest, size, -1, true)
streamReadToBuffer(f, sz, ret, onThrow) ==
    EnterRead(f, "lookup", sz, FALSE, ret, onThrow)
\* throw std::runtime_error(what)
Throw(f, what) == [f EXCEPT !.pc = f.onThrow, !.what = what]

\* the AdbStream a framer holds a pointer to
ObjOf(m) == mediaObjs[m][framer[m].obj]

\* readExact: `if (!running_.load() || !adb_) throw'
readExact_check(m) ==
    /\ framer[m].pc = "check"
    /\ framer' = [framer EXCEPT ![m] =
                    IF ~running_ \/ ~adb_
                    THEN Throw(@, "Stream manager not running")
                    ELSE [@ EXCEPT !.pc = "lookup"]]
    /\ UNCHANGED <<notMgr, running_, adb_, config_, mediaThread, stopCall,
                   mediaObjs, mediaReg, peer, events, decoders>>

\* streamRead / streamReadToBuffer: the lookup in connectionStreams_ under
\* streamsMutex_
streamRead_find(m) ==
    /\ framer[m].pc = "lookup"
    /\ framer' = [framer EXCEPT ![m] =
                    IF mediaReg[m] = 0
                    THEN Throw(@, "Stream not found")
                    ELSE [@ EXCEPT !.pc = "wait", !.obj = mediaReg[m]]]
    /\ UNCHANGED <<notMgr, running_, adb_, config_, mediaThread, stopCall,
                   mediaObjs, mediaReg, peer, events, decoders>>

\* one round of the read loop with data in the ring buffer: waitForData
\* returns true, copyTo takes what is there, up to what is still needed; the
\* read returns once it has `size' bytes
streamRead_take(m) ==
    /\ framer[m].pc = "wait"
    /\ ObjOf(m).buf # <<>>
    /\ LET f == framer[m]
           n == Min(f.want - BLen(f.got), BLen(ObjOf(m).buf))
           got == BCat(f.got, BTake(ObjOf(m).buf, n))
       IN  /\ mediaObjs' = [mediaObjs EXCEPT ![m][f.obj].buf = BDrop(@, n)]
           /\ framer' = [framer EXCEPT ![m] =
                           [@ EXCEPT !.got = got,
                                     !.pc = IF BLen(got) = f.want THEN f.ret ELSE "wait"]]
    /\ UNCHANGED <<notMgr, running_, adb_, config_, mediaThread, stopCall,
                   mediaReg, peer, events, decoders>>

\* the ring buffer is empty and closed: waitForData returns (false, or true
\* on the timed path, where copyTo then copies nothing) and the read throws
streamRead_isClosed(m) ==
    /\ framer[m].pc = "wait"
    /\ ObjOf(m).buf = <<>>
    /\ ObjOf(m).closed
    /\ framer' = [framer EXCEPT ![m] = Throw(@, "Stream closed")]
    /\ UNCHANGED <<notMgr, running_, adb_, config_, mediaThread, stopCall,
                   mediaObjs, mediaReg, peer, events, decoders>>

\* a read with timeoutMs > 0 runs out of time: in waitForData on an empty
\* buffer, or at the elapsed check after a copy that left it short
streamRead_elapsed(m) ==
    /\ framer[m].pc = "wait"
    /\ framer[m].timed
    /\ ~ObjOf(m).closed
    /\ ObjOf(m).buf = <<>> \/ framer[m].got # <<>>
    /\ framer' = [framer EXCEPT ![m] = Throw(@, "Stream read timeout")]
    /\ UNCHANGED <<notMgr, running_, adb_, config_, mediaThread, stopCall,
                   mediaObjs, mediaReg, peer, events, decoders>>

\* the steps of Adb::streamRead / streamReadToBuffer without timeout
StreamRead(m) ==
    \/ streamRead_find(m)
    \/ streamRead_take(m)
    \/ streamRead_isClosed(m)

\* the steps of a readExact without timeout
ReadStep(m) == readExact_check(m) \/ StreamRead(m)

\* handleInLoop finds the stream of a frame's arg1 in connectionStreams_, or
\* registers a new AdbStream under it (createNewStream)
Registered(m) ==
    IF mediaReg[m] # 0
    THEN [objs |-> mediaObjs[m], at |-> mediaReg[m]]
    ELSE [objs |-> Append(mediaObjs[m], MediaStream), at |-> Len(mediaObjs[m]) + 1]

\* the device sends its next WRTE on stream m and handleInLoop copies the
\* payload into the stream's ring buffer
handleInLoop_WRTE(m) ==
    /\ peer[m].script # <<>>
    /\ ~peer[m].clse
    /\ LET r == Registered(m)
       IN  /\ mediaObjs' = [mediaObjs EXCEPT ![m] =
                               [r.objs EXCEPT ![r.at].buf = BCat(@, Head(peer[m].script))]]
           /\ mediaReg' = [mediaReg EXCEPT ![m] = r.at]
    /\ peer' = [peer EXCEPT ![m].script = Tail(@)]
    /\ UNCHANGED <<notMgr, running_, adb_, config_, mediaThread, framer, stopCall,
                   events, decoders>>

\* the device closes stream m (CLSE) and handleInLoop marks the stream
\* closed and closes its ring buffer; the entry stays in connectionStreams_
handleInLoop_CLSE(m) ==
    /\ ~peer[m].clse
    /\ LET r == Registered(m)
       IN  /\ mediaObjs' = [mediaObjs EXCEPT ![m] =
                               [r.objs EXCEPT ![r.at].closed = TRUE]]
           /\ mediaReg' = [mediaReg EXCEPT ![m] = r.at]
    /\ peer' = [peer EXCEPT ![m].clse = TRUE]
    /\ UNCHANGED <<notMgr, running_, adb_, config_, mediaThread, framer, stopCall,
                   events, decoders>>

\* start(adb, config, callback) on a manager that is not running: one thread
\* per stream whose id is not negative
start ==
    /\ ~running_
    /\ stopCall.pc = "idle"
    /\ \A m \in Media : mediaThread[m] = "none"
    /\ adb_' = TRUE
    /\ running_' = TRUE
    /\ LET started == {m \in Media : mediaReg[m] # 0}
       IN /\ config_' = [m \in Media |-> IF m \in started THEN StreamIdOf(m) ELSE 0 - 1]
          /\ mediaThread' = [m \in Media |-> IF m \in started THEN "joinable" ELSE "none"]
          /\ framer' = [m \in Media |->
                           IF m \in started THEN [FramerIdle EXCEPT !.pc = "begin"]
                           ELSE FramerIdle]
    /\ UNCHANGED <<notMgr, stopCall, mediaObjs, mediaReg, peer, events, decoders>>

\* the order in which stop() closes the streams and joins the threads
AfterMedia(m) == CASE m = "video" -> "audio" [] m = "audio" -> "control" [] OTHER -> "none"
\* stop() moves from stream (or thread) m to the next one, or to phase `next'
StopAdvance(pc, m, next) ==
    IF AfterMedia(m) = "none"
    THEN [pc |-> next, m |-> "video", obj |-> 0]
    ELSE [pc |-> pc, m |-> AfterMedia(m), obj |-> 0]

\* stop(): `if (!running_.load()) return; running_.store(false);'
stop_call ==
    /\ stopCall.pc = "idle"
    /\ IF ~running_
       THEN /\ stopCall' = [stopCall EXCEPT !.pc = "returned"]
            /\ UNCHANGED running_
       ELSE /\ running_' = FALSE
            /\ stopCall' = [pc |-> IF adb_ THEN "close" ELSE "join", m |-> "video",
                            obj |-> 0]
    /\ UNCHANGED <<notMgr, adb_, config_, mediaThread, framer, mediaObjs, mediaReg,
                   peer, events, decoders>>

\* stop() -> Adb::streamClose(id), first half: the entry is erased from
\* connectionStreams_ under streamsMutex_ (streams that were not configured
\* are skipped)
stop_streamClose_erase ==
    /\ stopCall.pc = "close"
    /\ IF config_[stopCall.m] >= 0
       THEN /\ stopCall' = [stopCall EXCEPT !.pc = "mark", !.obj = mediaReg[stopCall.m]]
            /\ mediaReg' = [mediaReg EXCEPT ![stopCall.m] = 0]
       ELSE /\ stopCall' = StopAdvance("close", stopCall.m, "join")
            /\ UNCHANGED mediaReg
    /\ UNCHANGED <<notMgr, running_, adb_, config_, mediaThread, framer, mediaObjs,
                   peer, events, decoders>>

\* stop() -> Adb::streamClose(id), second half: if the entry was found, CLSE
\* is queued, then `stream->closed = true; stream->readBuffer.close()'
stop_streamClose_mark ==
    /\ stopCall.pc = "mark"
    /\ mediaObjs' = IF stopCall.obj = 0 THEN mediaObjs
                    ELSE [mediaObjs EXCEPT ![stopCall.m][stopCall.obj].closed = TRUE]
    /\ stopCall' = StopAdvance("close", stopCall.m, "join")
    /\ UNCHANGED <<notMgr, running_, adb_, config_, mediaThread, framer, mediaReg,
                   peer, events, decoders>>

\* stop(): `if (thread.joinable()) thread.join()' returns once the thread
\* function has returned
stop_join ==
    /\ stopCall.pc = "join"
    /\ mediaThread[stopCall.m] = "joinable" => framer[stopCall.m].pc = "done"
    /\ mediaThread' = [mediaThread EXCEPT ![stopCall.m] =
                          IF @ = "joinable" THEN "joined" ELSE @]
    /\ stopCall' = StopAdvance("join", stopCall.m, "release")
    /\ UNCHANGED <<notMgr, running_, adb_, config_, framer, mediaObjs, mediaReg,
                   peer, events, decoders>>

\* stop(): the decoders are released and deleted, adb_ = nullptr
stop_release ==
    /\ stopCall.pc = "release"
    /\ decoders' = [d \in DOMAIN decoders |->
                       [decoders[d] EXCEPT !.codec = "none", !.started = FALSE]]
    /\ adb_' = FALSE
    /\ stopCall' = [stopCall EXCEPT !.pc = "returned"]
    /\ UNCHANGED <<notMgr, running_, config_, mediaThread, framer, mediaObjs,
                   mediaReg, peer, events>>

StopStep ==
    \/ stop_streamClose_erase
    \/ stop_streamClose_mark
    \/ stop_join
    \/ stop_release

(***************************************************************************)
(* controlThreadFunc                                                       *)
(***************************************************************************)
\* `while (running_.load())' and the read of the type byte
control_while ==
    /\ framer["control"].pc \in {"begin", "c_loop"}
    /\ framer' = [framer EXCEPT !["control"] =
                    IF running_ THEN readExact(@, 1, FALSE, "c_type")
                    ELSE [@ EXCEPT !.pc = "done"]]
    /\ UNCHANGED <<notMgr, running_, adb_, config_, mediaThread, stopCall,
                   mediaObjs, mediaReg, peer, events, decoders>>

\* the two bytes of the UHID size, big-endian
Uint16BE(s) == BGet(s, 1) * 256 + BGet(s, 2)

\* the clipboard length test that lets a text of exactly 100000 bytes go
ClipLenAccepted_Short(clipLen) == clipLen > 0 /\ clipLen < MAX_CLIPBOARD

\* `clipLen > 0 && clipLen <= 100000'
ClipLenAccepted(clipLen) == clipLen > 0 /\ clipLen <= MAX_CLIPBOARD

\* a default case that leaves the loop
control_default_Break(f, eventType) == [f EXCEPT !.pc = "done", !.eventType = eventType]

\* `default:' the type is logged and the loop goes on
control_default(f, eventType) == [f EXCEPT !.pc = "c_loop", !.eventType = eventType]

\* `if (!running_.load()) break; switch (eventType)': CLIPBOARD reads its
\* length, ACK_CLIPBOARD skips 8 bytes, UHID_OUTPUT skips its id, any other
\* type is logged
control_switch ==
    /\ framer["control"].pc = "c_type"
    /\ LET eventType == BGet(framer["control"].got, 1)
       IN  framer' = [framer EXCEPT !["control"] =
              IF ~running_ THEN [@ EXCEPT !.pc = "done", !.eventType = eventType]
              ELSE CASE eventType = 0 ->
                          readExact([@ EXCEPT !.eventType = 0], 4, FALSE, "c_clipLen")
                     [] eventType = 1 ->
                          readExact([@ EXCEPT !.eventType = 1], 8, FALSE, "c_loop")
                     [] eventType = 2 ->
                          readExact([@ EXCEPT !.eventType = 2], 2, FALSE, "c_uhidId")
                     [] OTHER -> control_default(@, eventType)]
    /\ UNCHANGED <<notMgr, running_, adb_, config_, mediaThread, stopCall,
                   mediaObjs, mediaReg, peer, events, decoders>>

\* CLIPBOARD: `if (clipLen > 0 && clipLen <= 100000)' the text is read
control_clipLen ==
    /\ framer["control"].pc = "c_clipLen"
    /\ LET clipLen == readInt32BE(framer["control"].got, 1)
       IN  framer' = [framer EXCEPT !["control"] =
              IF ClipLenAccepted(clipLen)
              THEN readExact(@, clipLen, FALSE, "c_clipText")
              ELSE [@ EXCEPT !.pc = "c_loop"]]
    /\ UNCHANGED <<notMgr, running_, adb_, config_, mediaThread, stopCall,
                   mediaObjs, mediaReg, peer, events, decoders>>

\* CLIPBOARD: emitEvent("clipboard", text)
control_clipboard ==
    /\ framer["control"].pc = "c_clipText"
    /\ events' = emitEvent("clipboard", framer["control"].got)
    /\ framer' = [framer EXCEPT !["control"].pc = "c_loop"]
    /\ UNCHANGED <<notMgr, running_, adb_, config_, mediaThread, stopCall,
                   mediaObjs, mediaReg, peer, decoders>>

\* UHID_OUTPUT: the id is dropped, the 2-byte size is read
control_uhidId ==
    /\ framer["control"].pc = "c_uhidId"
    /\ framer' = [framer EXCEPT !["control"] = readExact(@, 2, FALSE, "c_uhidSize")]
    /\ UNCHANGED <<notMgr, running_, adb_, config_, mediaThread, stopCall,
                   mediaObjs, mediaReg, peer, events, decoders>>

\* UHID_OUTPUT: `if (size > 0) readExact(size)'
control_uhidSize ==
    /\ framer["control"].pc = "c_uhidSize"
    /\ LET uhidSize == Uint16BE(framer["control"].got)
       IN  framer' = [framer EXCEPT !["control"] =
              IF uhidSize > 0 THEN readExact(@, uhidSize, FALSE, "c_loop")
              ELSE [@ EXCEPT !.pc = "c_loop"]]
    /\ UNCHANGED <<notMgr, running_, adb_, config_, mediaThread, stopCall,
                   mediaObjs, mediaReg, peer, events, decoders>>

\* catch (const std::exception& e): an error event if still running
control_catch ==
    /\ framer["control"].pc = "catch"
    /\ events' = IF running_
                 THEN emitEvent("error", <<"Control thread error: ", framer["control"].what>>)
                 ELSE events
    /\ framer' = [framer EXCEPT !["control"].pc = "done"]
    /\ UNCHANGED <<notMgr, running_, adb_, config_, mediaThread, stopCall,
                   mediaObjs, mediaReg, peer, decoders>>

controlThreadFunc ==
    \/ control_while
    \/ control_switch
    \/ control_clipLen
    \/ control_clipboard
    \/ control_uhidId
    \/ control_uhidSize
    \/ control_catch
    \/ ReadStep("control")

(***************************************************************************)
(* The decoders as the framer threads use them.  What a decoder answers is *)
(* up to the platform: its input buffers work (`pool' is "free") or it has *)
(* failed, it answers the first `refusals' requests for a buffer with a    *)
(* timeout (`refused' counts them), and a buffer holds `capacity' bytes.   *)
(***************************************************************************)
\* GetInputBuffer(.., 10): 0 with a buffer, -2 after the 10 ms when none is
\* free, -1 when the decoder has failed
GetInputBuffer(d) ==
    IF decoders[d].pool # "free" THEN 0 - 1
    ELSE IF decoders[d].refused < decoders[d].refusals THEN 0 - 2
    ELSE 0
\* the decoder after the call
AfterGetInputBuffer(d) ==
    IF running_ /\ GetInputBuffer(d) = 0 - 2
    THEN [decoders EXCEPT ![d].refused = @ + 1]
    ELSE decoders

\* SubmitInputBuffer(index, handle, pts, size, flags): what the decoder is
\* handed, `data' being the bytes the framer put into the buffer
Submission(pts, sz, flags, data) ==
    [pts |-> pts, size |-> sz, flags |-> flags, data |-> data]
\* SubmitInputBuffer(bufIndex, bufHandle, 0, 0, 0): the buffer goes back empty
EmptySubmission == Submission(<<>>, 0, 0, <<>>)
SubmitInputBuffer(d, s) == [decoders EXCEPT ![d].submitted = Append(@, s)]

\* the 8 bytes of a PTS with the bits at and above `bit' of the first byte
\* cleared: bit = 128 is `ptsRaw & ~PACKET_FLAG_CONFIG', bit = 64 is
\* `ptsRaw & PTS_MASK'
MaskPts(pts, bit) == BCat(Run(BGet(pts, 1) % bit, 1), BDrop(pts, 1))

\* `while (running_.load()) { getBufRet = GetInputBuffer(..); if (getBufRet
\* == 0) break; if (getBufRet != -2) break; }' seen from one evaluation of
\* the loop condition: the thread stays in the loop on -2
Acquire(f, d, next) ==
    IF ~running_ THEN [f EXCEPT !.pc = next]
    ELSE IF GetInputBuffer(d) = 0 - 2 THEN [f EXCEPT !.getBufRet = 0 - 2]
    ELSE [f EXCEPT !.pc = next, !.getBufRet = GetInputBuffer(d),
                   !.bufCapacity = IF GetInputBuffer(d) = 0 THEN decoders[d].capacity
                                   ELSE 0]

(***************************************************************************)
(* videoThreadFunc                                                         *)
(***************************************************************************)
\* the dummy byte: readExact(videoStreamId, 1, 2000)
video_begin ==
    /\ framer["video"].pc = "begin"
    /\ framer' = [framer EXCEPT !["video"] = readExact(@, 1, TRUE, "v_name")]
    /\ UNCHANGED <<notMgr, running_, adb_, config_, mediaThread, stopCall,
                   mediaObjs, mediaReg, peer, events, decoders>>

\* the device name: readExact(videoStreamId, 64, 2000)
video_name ==
    /\ framer["video"].pc = "v_name"
    /\ framer' = [framer EXCEPT !["video"] = readExact(@, DEVICE_NAME_LEN, TRUE, "v_meta")]
    /\ UNCHANGED <<notMgr, running_, adb_, config_, mediaThread, stopCall,
                   mediaObjs, mediaReg, peer, events, decoders>>

\* `deviceName = deviceName.c_str()': the bytes before the first NUL
UpToNul(s) ==
    IF s = <<>> \/ s[1].b = 0 THEN <<>>
    ELSE IF Len(s) = 1 \/ s[2].b = 0 THEN <<s[1]>>
    ELSE s

\* the codec metadata: readExact(videoStreamId, 12, 2000)
video_meta ==
    /\ framer["video"].pc = "v_meta"
    /\ LET f == framer["video"]
       IN  framer' = [framer EXCEPT !["video"] =
                        readExact([f EXCEPT !.deviceName = UpToNul(f.got)],
                                  12, TRUE, "v_config")]
    /\ UNCHANGED <<notMgr, running_, adb_, config_, mediaThread, stopCall,
                   mediaObjs, mediaReg, peer, events, decoders>>

\* `codecType = "h264"; if (codecId == 1 || codecId == 1748121141) "h265";
\* if (codecId == 2 || codecId == 1635135537) "av1"'
VideoCodecType(codecId) ==
    IF codecId = 2 \/ codecId = 1635135537 THEN "av1"
    ELSE IF codecId = 1 \/ codecId = 1748121141 THEN "h265"
    ELSE "h264"

\* the video_config event, then the decoder is created and initialised
video_config ==
    /\ framer["video"].pc = "v_config"
    /\ LET f == framer["video"]
           codecId == readInt32BE(f.got, 1)
           cfg == [codecId |-> codecId, width |-> readInt32BE(f.got, 5),
                   height |-> readInt32BE(f.got, 9),
                   codecType |-> VideoCodecType(codecId),
                   deviceName |-> f.deviceName]
       IN  /\ decoders' = [decoders EXCEPT !["video"].codec = VideoCodecType(codecId)]
           /\ \E initRet \in {0, 0 - 1} :
                 IF initRet # 0
                 THEN /\ events' = Append(emitEvent("video_config", cfg),
                                          [type |-> "error",
                                           data |-> "Video decoder init failed"])
                      /\ framer' = [framer EXCEPT !["video"].pc = "done"]
                 ELSE /\ events' = emitEvent("video_config", cfg)
                      /\ framer' = [framer EXCEPT !["video"].pc = "v_start"]
    /\ UNCHANGED <<notMgr, running_, adb_, config_, mediaThread, stopCall,
                   mediaObjs, mediaReg, peer>>

\* videoDecoder_->Start()
video_start ==
    /\ framer["video"].pc = "v_start"
    /\ \E startRet \in {0, 0 - 1} :
          IF startRet # 0
          THEN /\ events' = emitEvent("error", "Video decoder start failed")
               /\ framer' = [framer EXCEPT !["video"].pc = "done"]
               /\ UNCHANGED decoders
          ELSE /\ decoders' = [decoders EXCEPT !["video"].started = TRUE]
               /\ framer' = [framer EXCEPT !["video"].pc = "v_loop"]
               /\ UNCHANGED events
    /\ UNCHANGED <<notMgr, running_, adb_, config_, mediaThread, stopCall,
                   mediaObjs, mediaReg, peer>>

\* `while (running_.load())' and the read of the 8 PTS bytes, whose
\* exception is caught in the loop: `break'
video_while ==
    /\ framer["video"].pc = "v_loop"
    /\ framer' = [framer EXCEPT !["video"] =
                    IF running_ THEN streamReadToBuffer(@, 8, "v_pts", "v_exit")
                    ELSE [@ EXCEPT !.pc = "v_exit"]]
    /\ UNCHANGED <<notMgr, running_, adb_, config_, mediaThread, stopCall,
                   mediaObjs, mediaReg, peer, events, decoders>>

\* isConfig, cleanPts = ptsRaw & ~PACKET_FLAG_CONFIG, flags, and the read of
\* the 4 size bytes
video_pts ==
    /\ framer["video"].pc = "v_pts"
    /\ LET f == framer["video"]
           isConfig == BGet(f.got, 1) >= 128
       IN  framer' = [framer EXCEPT !["video"] =
                        streamReadToBuffer(
                            [f EXCEPT !.isConfig = isConfig,
                                      !.cleanPts = MaskPts(f.got, 128),
                                      !.flags = IF isConfig THEN CODEC_DATA ELSE 0],
                            4, "v_size", "v_exit")]
    /\ UNCHANGED <<notMgr, running_, adb_, config_, mediaThread, stopCall,
                   mediaObjs, mediaReg, peer, events, decoders>>

\* the frame size the video thread breaks on
InvalidVideoSize_ZeroPasses(frameSize) == frameSize < 0 \/ frameSize > MAX_VIDEO_FRAME
InvalidVideoSize(frameSize) == frameSize <= 0 \/ frameSize > MAX_VIDEO_FRAME

\* `if (frameSize <= 0 || frameSize > 20 * 1024 * 1024) break;'
video_size ==
    /\ framer["video"].pc = "v_size"
    /\ LET frameSize == readInt32BE(framer["video"].got, 1)
       IN  framer' = [framer EXCEPT !["video"] =
              IF InvalidVideoSize(frameSize)
              THEN [@ EXCEPT !.pc = "v_exit", !.frameSize = frameSize]
              ELSE [@ EXCEPT !.pc = "v_acquire", !.frameSize = frameSize,
                             !.getBufRet = 0 - 1]]
    /\ UNCHANGED <<notMgr, running_, adb_, config_, mediaThread, stopCall,
                   mediaObjs, mediaReg, peer, events, decoders>>

\* the loop around videoDecoder_->GetInputBuffer
video_acquire ==
    /\ framer["video"].pc = "v_acquire"
    /\ framer' = [framer EXCEPT !["video"] = Acquire(@, "video", "v_acquired")]
    /\ decoders' = AfterGetInputBuffer("video")
    /\ UNCHANGED <<notMgr, running_, adb_, config_, mediaThread, stopCall,
                   mediaObjs, mediaReg, peer, events>>

\* `if (getBufRet != 0) break;' then the payload is read: into a temporary
\* when the buffer is too small (an exception of that read reaches the
\* outer catch), else into the decoder's buffer
video_acquired ==
    /\ framer["video"].pc = "v_acquired"
    /\ framer' = [framer EXCEPT !["video"] =
                    IF @.getBufRet # 0 THEN [@ EXCEPT !.pc = "v_exit"]
                    ELSE IF @.bufCapacity < @.frameSize
                         THEN streamReadToBuffer(@, @.frameSize, "v_drained", "catch")
                         ELSE streamReadToBuffer(@, @.frameSize, "v_submit", "v_readFail")]
    /\ UNCHANGED <<notMgr, running_, adb_, config_, mediaThread, stopCall,
                   mediaObjs, mediaReg, peer, events, decoders>>

\* buffer too small: the buffer goes back empty, `continue'
video_drained ==
    /\ framer["video"].pc = "v_drained"
    /\ decoders' = SubmitInputBuffer("video", EmptySubmission)
    /\ framer' = [framer EXCEPT !["video"].pc = "v_loop"]
    /\ UNCHANGED <<notMgr, running_, adb_, config_, mediaThread, stopCall,
                   mediaObjs, mediaReg, peer, events>>

\* the read of the payload threw: the buffer goes back empty, `break'
video_readFail ==
    /\ framer["video"].pc = "v_readFail"
    /\ decoders' = SubmitInputBuffer("video", EmptySubmission)
    /\ framer' = [framer EXCEPT !["video"].pc = "v_exit"]
    /\ UNCHANGED <<notMgr, running_, adb_, config_, mediaThread, stopCall,
                   mediaObjs, mediaReg, peer, events>>

\* SubmitInputBuffer(bufIndex, bufHandle, cleanPts, frameSize, flags), and
\* first_frame after the first submission the decoder accepts
video_submit ==
    /\ framer["video"].pc = "v_submit"
    /\ LET f == framer["video"]
       IN  /\ decoders' = SubmitInputBuffer("video",
                              Submission(f.cleanPts, f.frameSize, f.flags, f.got))
           /\ \E submitRet \in {0, 0 - 1} :
                 IF submitRet = 0 /\ ~f.firstFrameNotified
                 THEN /\ events' = emitEvent("first_frame", "")
                      /\ framer' = [framer EXCEPT !["video"].pc = "v_loop",
                                                  !["video"].firstFrameNotified = TRUE]
                 ELSE /\ framer' = [framer EXCEPT !["video"].pc = "v_loop"]
                      /\ UNCHANGED events
    /\ UNCHANGED <<notMgr, running_, adb_, config_, mediaThread, stopCall,
                   mediaObjs, mediaReg, peer>>

\* catch (const std::exception& e): an error event if still running
video_catch ==
    /\ framer["video"].pc = "catch"
    /\ events' = IF running_
                 THEN emitEvent("error", <<"Video thread error: ", framer["video"].what>>)
                 ELSE events
    /\ framer' = [framer EXCEPT !["video"].pc = "v_exit"]
    /\ UNCHANGED <<notMgr, running_, adb_, config_, mediaThread, stopCall,
                   mediaObjs, mediaReg, peer, decoders>>

\* after the try block: `if (running_.load()) emitEvent("disconnected",
\* "video")'
video_exit ==
    /\ framer["video"].pc = "v_exit"
    /\ events' = IF running_ THEN emitEvent("disconnected", "video") ELSE events
    /\ framer' = [framer EXCEPT !["video"].pc = "done"]
    /\ UNCHANGED <<notMgr, running_, adb_, config_, mediaThread, stopCall,
                   mediaObjs, mediaReg, peer, decoders>>

\* the header phase of videoThreadFunc, with its timed reads
videoHeader ==
    \/ video_begin
    \/ video_name
    \/ video_meta
    \/ video_config
    \/ video_start
    \/ readExact_check("video")
    \/ streamRead_elapsed("video")

\* its frame loop and its end
videoFrames ==
    \/ StreamRead("video")
    \/ video_catch
    \/ video_exit
    \/ video_while
    \/ video_pts
    \/ video_size
    \/ video_acquire
    \/ video_acquired
    \/ video_drained
    \/ video_readFail
    \/ video_submit

videoThreadFunc == videoHeader \/ videoFrames

(***************************************************************************)
(* audioThreadFunc                                                         *)
(***************************************************************************)
\* the codec header: readExact(audioStreamId, 4, 2000)
audio_begin ==
    /\ framer["audio"].pc = "begin"
    /\ framer' = [framer EXCEPT !["audio"] = readExact(@, 4, TRUE, "a_codec")]
    /\ UNCHANGED <<notMgr, running_, adb_, config_, mediaThread, stopCall,
                   mediaObjs, mediaReg, peer, events, decoders>>

\* the switch on the codec id: "opus", "\0aac", "flac", "\0raw", and opus
\* for anything else
AudioCodecName(codecId) ==
    CASE codecId = 1869641075 -> "opus"
      [] codecId = 6381923 -> "aac"
      [] codecId = 1718378851 -> "flac"
      [] codecId = 7496055 -> "raw"
      [] OTHER -> "opus"

\* codec id 0: audio_disabled and return; 1: return; otherwise the decoder
\* is created and initialised, its failure is an error event
audio_codec ==
    /\ framer["audio"].pc = "a_codec"
    /\ LET codecId == readInt32BE(framer["audio"].got, 1)
       IN  \/ /\ codecId = 0
              /\ events' = emitEvent("audio_disabled", "")
              /\ framer' = [framer EXCEPT !["audio"].pc = "done"]
              /\ UNCHANGED decoders
           \/ /\ codecId = 1
              /\ framer' = [framer EXCEPT !["audio"].pc = "done"]
              /\ UNCHANGED <<events, decoders>>
           \/ /\ codecId \notin {0, 1}
              /\ decoders' = [decoders EXCEPT !["audio"].codec = AudioCodecName(codecId)]
              /\ \E initRet \in {0, 0 - 1} :
                    IF initRet # 0
                    THEN /\ events' = emitEvent("error", "Audio decoder init failed")
                         /\ framer' = [framer EXCEPT !["audio"].pc = "done"]
                    ELSE /\ framer' = [framer EXCEPT !["audio"].pc = "a_start"]
                         /\ UNCHANGED events
    /\ UNCHANGED <<notMgr, running_, adb_, config_, mediaThread, stopCall,
                   mediaObjs, mediaReg, peer>>

\* audioDecoder_->Start()
audio_start ==
    /\ framer["audio"].pc = "a_start"
    /\ \E startRet \in {0, 0 - 1} :
          IF startRet # 0
          THEN /\ events' = emitEvent("error", "Audio decoder start failed")
               /\ framer' = [framer EXCEPT !["audio"].pc = "done"]
               /\ UNCHANGED decoders
          ELSE /\ decoders' = [decoders EXCEPT !["audio"].started = TRUE]
               /\ framer' = [framer EXCEPT !["audio"].pc = "a_loop"]
               /\ UNCHANGED events
    /\ UNCHANGED <<notMgr, running_, adb_, config_, mediaThread, stopCall,
                   mediaObjs, mediaReg, peer>>

\* `while (running_.load())' and readExact(audioStreamId, 8)
audio_while ==
    /\ framer["audio"].pc = "a_loop"
    /\ framer' = [framer EXCEPT !["audio"] =
                    IF running_ THEN readExact(@, 8, FALSE, "a_pts")
                    ELSE [@ EXCEPT !.pc = "done"]]
    /\ UNCHANGED <<notMgr, running_, adb_, config_, mediaThread, stopCall,
                   mediaObjs, mediaReg, peer, events, decoders>>

\* isConfig, cleanPts = ptsRaw & PTS_MASK, and readExact(audioStreamId, 4)
audio_pts ==
    /\ framer["audio"].pc = "a_pts"
    /\ LET f == framer["audio"]
       IN  framer' = [framer EXCEPT !["audio"] =
                        readExact([f EXCEPT !.isConfig = BGet(f.got, 1) >= 128,
                                            !.cleanPts = MaskPts(f.got, 64)],
                                  4, FALSE, "a_size")]
    /\ UNCHANGED <<notMgr, running_, adb_, config_, mediaThread, stopCall,
                   mediaObjs, mediaReg, peer, events, decoders>>

\* `if (frameSize <= 0 || frameSize > 1024 * 1024) break;'
audio_size ==
    /\ framer["audio"].pc = "a_size"
    /\ LET frameSize == readInt32BE(framer["audio"].got, 1)
       IN  framer' = [framer EXCEPT !["audio"] =
              IF frameSize <= 0 \/ frameSize > MAX_AUDIO_FRAME
              THEN [@ EXCEPT !.pc = "done", !.frameSize = frameSize]
              ELSE [@ EXCEPT !.pc = "a_acquire", !.frameSize = frameSize,
                             !.getBufRet = 0 - 1]]
    /\ UNCHANGED <<notMgr, running_, adb_, config_, mediaThread, stopCall,
                   mediaObjs, mediaReg, peer, events, decoders>>

\* the loop around audioDecoder_->GetInputBuffer
audio_acquire ==
    /\ framer["audio"].pc = "a_acquire"
    /\ framer' = [framer EXCEPT !["audio"] = Acquire(@, "audio", "a_acquired")]
    /\ decoders' = AfterGetInputBuffer("audio")
    /\ UNCHANGED <<notMgr, running_, adb_, config_, mediaThread, stopCall,
                   mediaObjs, mediaReg, peer, events>>

\* `if (getBufRet != 0) break;' then the payload is read: into a temporary
\* when the buffer is too small (an exception of that read is not caught
\* locally), else into the decoder's buffer
audio_acquired ==
    /\ framer["audio"].pc = "a_acquired"
    /\ framer' = [framer EXCEPT !["audio"] =
                    IF @.getBufRet # 0 THEN [@ EXCEPT !.pc = "done"]
                    ELSE IF @.bufCapacity < @.frameSize
                         THEN streamReadToBuffer(@, @.frameSize, "a_drained", "catch")
                         ELSE streamReadToBuffer(@, @.frameSize, "a_submit", "a_readFail")]
    /\ UNCHANGED <<notMgr, running_, adb_, config_, mediaThread, stopCall,
                   mediaObjs, mediaReg, peer, events, decoders>>

\* buffer too small: the payload was read to a temporary, the buffer goes
\* back empty, `continue'
audio_drained ==
    /\ framer["audio"].pc = "a_drained"
    /\ decoders' = SubmitInputBuffer("audio", EmptySubmission)
    /\ framer' = [framer EXCEPT !["audio"].pc = "a_loop"]
    /\ UNCHANGED <<notMgr, running_, adb_, config_, mediaThread, stopCall,
                   mediaObjs, mediaReg, peer, events>>

\* the read of the payload threw: the buffer goes back empty, `break'
audio_readFail ==
    /\ framer["audio"].pc = "a_readFail"
    /\ decoders' = SubmitInputBuffer("audio", EmptySubmission)
    /\ framer' = [framer EXCEPT !["audio"].pc = "done"]
    /\ UNCHANGED <<notMgr, running_, adb_, config_, mediaThread, stopCall,
                   mediaObjs, mediaReg, peer, events>>

\* SubmitInputBuffer(bufIndex, bufHandle, cleanPts, frameSize, 0)
audio_submit ==
    /\ framer["audio"].pc = "a_submit"
    /\ decoders' = SubmitInputBuffer("audio",
                       Submission(framer["audio"].cleanPts, framer["audio"].frameSize,
                                  0, framer["audio"].got))
    /\ framer' = [framer EXCEPT !["audio"].pc = "a_loop"]
    /\ UNCHANGED <<notMgr, running_, adb_, config_, mediaThread, stopCall,
                   mediaObjs, mediaReg, peer, events>>

\* catch (const std::exception& e): an error event if still running
audio_catch ==
    /\ framer["audio"].pc = "catch"
    /\ events' = IF running_
                 THEN emitEvent("error", <<"Audio thread error: ", framer["audio"].what>>)
                 ELSE events
    /\ framer' = [framer EXCEPT !["audio"].pc = "done"]
    /\ UNCHANGED <<notMgr, running_, adb_, config_, mediaThread, stopCall,
                   mediaObjs, mediaReg, peer, decoders>>

\* the header phase of audioThreadFunc, with its timed read
audioHeader ==
    \/ audio_begin
    \/ audio_codec
    \/ audio_start
    \/ streamRead_elapsed("audio")

\* its frame loop and its end
audioFrames ==
    \/ ReadStep("audio")
    \/ audio_catch
    \/ audio_while
    \/ audio_pts
    \/ audio_size
    \/ audio_acquire
    \/ audio_acquired
    \/ audio_drained
    \/ audio_readFail
    \/ audio_submit

audioThreadFunc == audioHeader \/ audioFrames

(***************************************************************************)
(* Specifications of the stream manager.                                   *)
(***************************************************************************)
\* the ways the device's bytes s arrive: in one WRTE, or cut in two after
\* the first 1..MaxCut bytes
Deliveries(s) ==
    {<<s>>} \cup {<<BTake(s, k), BDrop(s, k)>> : k \in 1..Min(MaxCut, BLen(s) - 1)}

\* the bytes of a sequence of payloads
RECURSIVE BJoin(_)
BJoin(q) == IF q = <<>> THEN <<>> ELSE BCat(q[1], BJoin(Tail(q)))

\* the streams in `opened' are open (Adb::open(.., true) returned their ids),
\* the device will send the WRTE payloads script[m] on them, the manager has
\* been constructed and not started
MediaInit(opened, script) ==
    /\ RingInit
    /\ NativeIdle
    /\ AdbInit
    /\ ConnectedInit
    /\ IdleInit
    /\ running_ = FALSE
    /\ adb_ = FALSE
    /\ config_ = [m \in Media |-> 0 - 1]
    /\ mediaThread = [m \in Media |-> "none"]
    /\ framer = [m \in Media |-> FramerIdle]
    /\ stopCall = [pc |-> "idle", m |-> "video", obj |-> 0]
    /\ mediaObjs = [m \in Media |-> IF m \in opened THEN <<MediaStream>> ELSE <<>>]
    /\ mediaReg = [m \in Media |-> IF m \in opened THEN 1 ELSE 0]
    /\ peer = [m \in Media |->
                 IF m \in opened
                 THEN [script |-> script[m], clse |-> FALSE, all |-> BJoin(script[m])]
                 ELSE [script |-> <<>>, clse |-> TRUE, all |-> <<>>]]
    /\ events = <<>>

\* the device messages of the control stream: CLIPBOARD with a text of len
\* bytes b, ACK_CLIPBOARD, UHID_OUTPUT with len bytes, a single byte
ClipboardMsg(len, textLen, b) == BCat(Bytes(<<0>> \o Int32BE(len)), Run(b, textLen))
AckMsg == Bytes(<<1, 0, 0, 0, 0, 0, 0, 0, 9>>)
UhidMsg(len) == BCat(Bytes(<<2, 0, 1, 0, len>>), Run(5, len))

\* the messages the control thread parses as the protocol frames them
ControlFramed ==
    {ClipboardMsg(n, n, 65) : n \in {0, 1, MaxText, MAX_CLIPBOARD}}
    \cup {AckMsg, UhidMsg(0), UhidMsg(2)}
    \cup {Bytes(<<t>>) : t \in {3, 255}}
\* CLIPBOARD messages whose length is over the cap or negative
ControlOversized ==
    {ClipboardMsg(MAX_CLIPBOARD + 1, 2, 1), ClipboardMsg(0 - 1, 1, 2)}

\* what the device sends on the control stream in ControlSpec: up to
\* MaxMessages messages, an oversized one only as the last
RECURSIVE ControlScripts(_)
ControlScripts(n) ==
    IF n = 0 THEN {<<>>}
    ELSE ControlFramed \cup ControlOversized
         \cup {BCat(m, s) : m \in ControlFramed, s \in ControlScripts(n - 1)}

\* a session with the control stream only (no video, no audio)
ControlInit ==
    /\ \E s \in ControlScripts(MaxMessages) \ {<<>>} :
          \E d \in Deliveries(s) : MediaInit({"control"}, [m \in Media |-> d])
    /\ decoders = [m \in {"video", "audio"} |-> NoDecoder]

ControlNext ==
    \/ start
    \/ handleInLoop_WRTE("control")
    \/ handleInLoop_CLSE("control")
    \/ controlThreadFunc

\* the control thread parsing what the device sends, nothing stopping it
ControlSpec == ControlInit /\ [][ControlNext]_vars

\* a media packet as the server frames it: 8 bytes of PTS whose first byte
\* is ptsTop (bit 7 CONFIG, bit 6 KEY_FRAME), the 4-byte size sz, and len
\* payload bytes b
Packet(ptsTop, sz, len, b) ==
    BCat(Bytes(<<ptsTop, 0, 0, 0, 0, 0, 0, 7>> \o Int32BE(sz)), Run(b, len))

\* up to n packets out of `framed', one of `broken' (a size that is not
\* valid, or a payload cut short) only as the last
RECURSIVE Packets(_, _, _)
Packets(n, framed, broken) ==
    IF n = 0 THEN {<<>>}
    ELSE {<<>>} \cup broken
         \cup {BCat(m, s) : m \in framed, s \in Packets(n - 1, framed, broken)}

\* what the platform's decoder does in a run: it works, with buffers of 1
\* or MaxPacket bytes, it refuses the first request, or it has failed
DecoderMoods ==
    {[NoDecoder EXCEPT !.capacity = c] : c \in {1, MaxPacket}}
    \cup {[NoDecoder EXCEPT !.capacity = MaxPacket, !.refusals = 1],
          [NoDecoder EXCEPT !.pool = "broken"]}

\* the audio stream: the codec id (a sentinel, a known codec, an unknown
\* one), then packets
AudioCodecIds == {0, 1, 1869641075, 6381923, 7}
AudioPackets ==
    Packets(MaxPackets,
            {Packet(t, n, n, 66) : t \in {0, 128}, n \in {1, MaxPacket}},
            {Packet(0, n, 1, 67) : n \in {0, 0 - 1, MaxPacket, MAX_AUDIO_FRAME + 1}})

\* a session with the audio stream only
AudioInit ==
    /\ \E c \in AudioCodecIds, s \in AudioPackets :
          \E d \in Deliveries(BCat(Bytes(Int32BE(c)), s)) :
             MediaInit({"audio"}, [m \in Media |-> d])
    /\ \E a \in DecoderMoods : decoders = [video |-> NoDecoder, audio |-> a]

AudioNext ==
    \/ start
    \/ handleInLoop_WRTE("audio")
    \/ handleInLoop_CLSE("audio")
    \/ audioHeader
    \/ audioFrames

\* the audio thread parsing what the device sends, nothing stopping it
AudioSpec == AudioInit /\ [][AudioNext]_vars


\* the video stream: the dummy byte, the 64 bytes of the device name, codec
\* id, width and height, then packets
VideoHeader(codecId) ==
    BCat(BCat(Bytes(<<0, 80, 49>>), Run(0, DEVICE_NAME_LEN - 2)),
         Bytes(Int32BE(codecId) \o Int32BE(1080) \o Int32BE(2400)))
VideoCodecIds == {0, 1748121141, 2, 7}
\* the payload of the config packet (SPS/PPS) the device sends
ConfigPayload == Run(83, MaxPacket)
VideoPackets ==
    Packets(MaxPackets,
            {Packet(0, 1, 1, 66), Packet(64, MaxPacket, MaxPacket, 66),
             BCat(Packet(128, MaxPacket, 0, 0), ConfigPayload)},
            {Packet(0, n, 1, 67) : n \in {0, 0 - 1, MaxPacket, MAX_VIDEO_FRAME + 1}})

\* a session with the video stream only
VideoInit ==
    /\ \E c \in VideoCodecIds, s \in VideoPackets :
          \E d \in {<<>>} \cup (IF s = <<>> THEN {} ELSE Deliveries(s)) :
             MediaInit({"video"}, [m \in Media |-> <<VideoHeader(c)>> \o d])
    /\ \E v \in DecoderMoods : decoders = [video |-> v, audio |-> NoDecoder]

VideoNext ==
    \/ start
    \/ handleInLoop_WRTE("video")
    \/ handleInLoop_CLSE("video")
    \/ videoHeader
    \/ videoFrames

\* the video thread parsing what the device sends, nothing stopping it
VideoSpec == VideoInit /\ [][VideoNext]_vars

\* a session with the video stream only whose decoder has all its input
\* buffers in use for the first MaxWaits requests
BackpressureInit ==
    /\ \E s \in {Packet(0, 1, 1, 66), Packet(64, MaxPacket, MaxPacket, 66),
                 Packet(0, MaxPacket, 1, 67)} :
          MediaInit({"video"}, [m \in Media |-> <<VideoHeader(0), s>>])
    /\ \E c \in {1, MaxPacket} :
          decoders = [video |-> [NoDecoder EXCEPT !.capacity = c, !.refusals = MaxWaits],
                      audio |-> NoDecoder]

\* the video thread in front of a busy decoder, nothing stopping it
BackpressureSpec == BackpressureInit /\ [][VideoNext]_vars

\* what the device still sends in a running session, and the size of the
\* decoders' input buffers: one stream carries a packet, delivered in two
\* pieces, or a message, the other two are quiet
Quiet(c) == [video |-> <<>>, audio |-> <<>>, control |-> <<>>, capacity |-> c]
ManagerCases ==
    {[Quiet(c) EXCEPT ![m] = <<BTake(p, 4), BDrop(p, 4)>>] :
        m \in {"video", "audio"},
        p \in {Packet(0, MaxPacket, MaxPacket, 66), Packet(0, MaxPacket, 1, 67)},
        c \in {1, MaxPacket}}
    \cup {[Quiet(MaxPacket) EXCEPT !["control"] = <<p>>] :
            p \in {ClipboardMsg(1, 1, 65), UhidMsg(2), Bytes(<<3>>)}}

\* where a framer thread is once the header phase of its stream is over
LoopHead(m) ==
    CASE m = "video" -> "v_loop" [] m = "audio" -> "a_loop" [] OTHER -> "c_loop"

\* a running session: start() has been called with the three streams, the
\* video and audio headers have been read, video_config has been emitted,
\* both decoders are started and every framer is at the head of its loop
ManagerInit ==
    /\ RingInit
    /\ NativeIdle
    /\ AdbInit
    /\ ConnectedInit
    /\ IdleInit
    /\ running_ = TRUE
    /\ adb_ = TRUE
    /\ config_ = [m \in Media |-> StreamIdOf(m)]
    /\ mediaThread = [m \in Media |-> "joinable"]
    /\ framer = [m \in Media |-> [FramerIdle EXCEPT !.pc = LoopHead(m)]]
    /\ stopCall = [pc |-> "idle", m |-> "video", obj |-> 0]
    /\ mediaObjs = [m \in Media |-> <<MediaStream>>]
    /\ mediaReg = [m \in Media |-> 1]
    /\ events = <<[type |-> "video_config",
                   data |-> [codecId |-> 0, width |-> 1080, height |-> 2400,
                             codecType |-> "h264", deviceName |-> Bytes(<<80, 49>>)]]>>
    /\ \E c \in ManagerCases :
          /\ peer = [m \in Media |->
                       [script |-> c[m], clse |-> FALSE, all |-> BJoin(c[m])]]
          /\ decoders = [video |-> [NoDecoder EXCEPT !.codec = "h264", !.started = TRUE,
                                                     !.capacity = c.capacity],
                         audio |-> [NoDecoder EXCEPT !.codec = "opus", !.started = TRUE,
                                                     !.capacity = c.capacity]]

\* the framer threads in their loops and the thread inside stop()
ManagerStep ==
    \/ StopStep
    \/ videoFrames
    \/ audioFrames
    \/ controlThreadFunc

\* the device sends on a stream
DeviceStep == \E m \in Media : handleInLoop_WRTE(m)

ManagerNext ==
    \/ stop_call
    \/ ManagerStep
    \/ DeviceStep

\* a running session with its three framer threads, the device and a call
\* of stop()
ManagerSpec == ManagerInit /\ [][ManagerNext]_vars

(***************************************************************************)
(* Claims about the ring buffer, checked under RingSpec                    *)
(***************************************************************************)

\* C3: under single-producer/single-consumer use the consumer reads exactly
\* the committed bytes in commit order, never reads a slot that is not
\* committed, the producer never writes a slot that is not yet consumed, and
\* 0 <= head - tail <= capacity in every reachable state.
C3_SpscOrder ==
    /\ size >= 0
    /\ size <= capacity_
    /\ \A i \in 1..Len(consumed) : consumed[i] = ByteAt(i - 1)
    /\ Len(consumed) <= head_
    /\ cons.pc = "copy" => tail_ + cons.n <= head_
    /\ prod.pc = "write" => head_ + prod.n <= tail_ + capacity_

\* the indices have wrapped past the capacity, the consumer has copied bytes
\* of the second lap, and both threads are inside the buffer at once
C3_Witness ==
    /\ Len(consumed) > capacity_
    /\ prod.pc = "write"
    /\ cons.pc = "copy"

\* a wakeup of the parked consumer is on its way: a notify reached it, or a
\* thread is committed to calling notify_all
WakePending ==
    \/ cvNotified
    \/ prod.pc = "lock"
    \/ prod.pc = "checkWaiting" /\ waiting_
    \/ closer = "lock"

\* C4: a consumer parked in waitForData(needed, timeout < 0) is woken once
\* the committed bytes reach `needed' (no lost wakeup): whenever it is parked
\* with size() >= needed, a wakeup is on its way.
C4_NoLostWakeup ==
    (cons.pc = "parked" /\ cons.timeoutMs < 0 /\ size >= cons.needed)
        => WakePending

\* C5: waitForData returns true only if at least `needed' bytes are available
\* at return, and false when it timed out or the buffer was closed without
\* enough data, for negative, zero and positive timeouts.
C5_TrueMeansData ==
    (cons.pc = "returned" /\ cons.result) => size >= cons.needed

(* ---- the session ------------------------------------------------------- *)

\* the OKAY that answers the frame the receive thread has in hand
OkayForFrame == generateOkay(recv.frame.arg1, recv.frame.arg0)

\* C1: while the session is open, the step in which the receive thread
\* finishes a frame leaves the send queue longer by exactly the OKAY for that
\* frame (arg0 = local id, arg1 = the peer's id) when the frame is a WRTE, of
\* any payload length, and leaves the queue as it was for every other command.
C1_OkayPerWrite ==
    [][(recv.pc \in {"normal", "okay", "okayPush"} /\ recv'.pc = "loop" /\ ~isClosed_)
          => IF recv.frame.cmd = "WRTE"
             THEN sendQueue_' = Append(sendQueue_, OkayForFrame)
             ELSE sendQueue_' = sendQueue_]_vars

\* C2: while the session is open, every local id that open(.., true) has
\* returned and that has not been passed to streamClose has an entry in
\* connectionStreams_, whatever frames the peer has sent.
C2_OpenedStaysRegistered ==
    ~isClosed_ => \A L \in owned : connectionStreams_[L] # 0

\* an opened stream is still registered after the peer's CLSE for it
C2_Witness ==
    /\ ~isClosed_
    /\ \E L \in owned : /\ connectionStreams_[L] # 0
                         /\ streams[connectionStreams_[L]].closed

\* C6: a streamRead called on L after streamClose(L) has returned neither
\* blocks nor returns data.
C6_ReadAfterCloseFails ==
    \A a \in Apps :
        (app[a].op = "streamRead" /\ app[a].afterClose)
            => /\ app[a].pc # "sr_parked"
               /\ ~(app[a].pc = "done" /\ app[a].result = "data")

\* C7: once the close() call that shut the session down has returned, no
\* untimed streamRead is still blocked on a ring buffer that was never closed.
C7_CloseWakesReaders ==
    closeReturned =>
        \A a \in Apps :
            (app[a].pc = "sr_parked" /\ app[a].timeoutMs < 0)
                => streams[app[a].obj].rbClosed

\* C8: while the application's close() call is shutting the session down, some
\* thread of the process can take a step, so that the call does not hang on a
\* worker that nothing will wake.
C8_AppCloseProceeds ==
    (cl["app2"].pc # "none" /\ cl["app2"].won) => ENABLED ThreadStep

\* C9: a close() call that finds isClosed_ already set goes straight to its
\* return and leaves the flags, the stream registry, the send queue and its
\* condition variable, the transport and both thread handles as they are.
C9_CloseIdempotent ==
    [][\A t \in Closers :
          (cl[t].pc = "cas" /\ isClosed_ /\ cl'[t] # cl[t])
              => /\ cl'[t] = [pc |-> "ret", won |-> FALSE]
                 /\ UNCHANGED <<G_flags, G_env, G_reg, G_sendq, G_thr>>]_vars

\* a second close() call is about to return while or after another call shut
\* the session down
C9_Witness ==
    /\ cl["app2"] = [pc |-> "ret", won |-> FALSE]
    /\ sendThread_ # "joinable"

\* C10: while a close() call made by the receive thread or by the sender
\* thread is shutting the session down, some thread of the process can take a
\* step: the call does not deadlock.
C10_WorkerCloseProceeds ==
    \A t \in {"recv", "send"} :
        (cl[t].pc # "none" /\ cl[t].won) => ENABLED ThreadStep

(***************************************************************************)
(* Claims about the send queue and the receive loop, checked under         *)
(* TransferSpec                                                            *)
(***************************************************************************)

\* the WRTE chunks that wait for the transport, oldest first: the one the
\* sender holds, then those in the queue
TxPending ==
    (IF IsChunk(send.data) THEN <<send.data>> ELSE <<>>)
        \o SelectSeq(sendQueue_, IsChunk)

\* a step that changes the queue appends one frame at its back, or hands its
\* front frame to the sender; the sender gives up the frame it holds only by
\* writing it
FifoStep ==
    /\ sendQueue_' # sendQueue_ =>
          \/ /\ Len(sendQueue_') = Len(sendQueue_) + 1
             /\ SubSeq(sendQueue_', 1, Len(sendQueue_)) = sendQueue_
          \/ /\ sendQueue_ # <<>>
             /\ sendQueue_' = Tail(sendQueue_)
             /\ send.data = NoFrame
             /\ send'.data = Head(sendQueue_)
    /\ (send.data # NoFrame /\ send'.data # send.data) =>
          /\ send.pc = "write"
          /\ send'.data = NoFrame
          /\ IsChunk(send.data) => txWritten' = send.data.off + send.data.len

\* C11: the sender writes the frames to the transport in the order in which
\* writeToChannel accepted them: the queue is only appended to at its back and
\* taken from at its front by the one sender, which writes a frame before it
\* takes the next; so the chunks of the streamWrite calls on a stream reach
\* the transport by increasing position in the stream's data, each one after
\* everything written before it.
C11_FifoOrder ==
    /\ [](\A i \in 1..Len(TxPending) :
             /\ TxPending[i].off >= txWritten
             /\ \A j \in 1..(i - 1) :
                    TxPending[j].off + TxPending[j].len <= TxPending[i].off)
    /\ [][FifoStep]_vars

\* both chunks of one streamWrite(len = 2) have been written to the transport
C11_Witness ==
    \E a \in Apps :
        /\ maxData_ = CHUNK_RESERVE + 1
        /\ app[a].pc = "sw_while"
        /\ app[a].size = 2
        /\ app[a].offset = 2
        /\ txWritten = 2

\* C16: for a WRTE frame with payload the receive loop takes exactly
\* payload_length bytes from the transport before it reads the next header,
\* whether or not the stream's ring buffer has room (what does not fit is read
\* and dropped), and it never waits for room in the ring buffer.
C16_ConsumesPayload ==
    /\ recv.pc = "zeroCopy" =>
          /\ recv.remaining > 0
          /\ recv.got + recv.remaining = recv.frame.len
          /\ ENABLED handleInLoop_zeroCopy
    /\ recv.pc \in {"okay", "okayPush"} =>
          /\ recv.remaining = 0
          /\ recv.got = recv.frame.len
    /\ recv.pc \in {"loop", "readHeader"} => recv.remaining = 0

\* a WRTE frame that found the ring buffer full has been consumed whole: its
\* payload was read and dropped
C16_Witness ==
    /\ recv.pc = "okay"
    /\ recv.frame.len > 0
    /\ recv.dropped = recv.frame.len
    /\ WriteAvail(streams[recv.obj].rbHead, streams[recv.obj].rbTail) = 0

(***************************************************************************)
(* Claims about the caps of the send queue, checked under BacklogSpec      *)
(***************************************************************************)

\* C12: the send queue is bounded: it never holds more than about 5,000
\* frames (one frame of slack) nor more than about 50 MiB (one frame of
\* slack), whatever the size of the frames.
C12_QueueBounded ==
    /\ backlog.count <= MAX_SEND_QUEUE_COUNT + 1
    /\ backlog.count * backlog.dataSize <= MAX_SEND_QUEUE_SIZE + backlog.dataSize

\* C13: writeToChannel never blocks on a full queue, and after every call the
\* frame it was given is in the queue: the back-pressure drops the oldest
\* queued frame, not the new one.
C13_NewFrameStaysQueued ==
    /\ (~isClosed_ /\ sendMutex_ = "none" /\ backlog.dataSize > 0
           /\ backlog.submitted < MaxSubmitted) => ENABLED writeToChannel_backlog
    /\ backlog.last # "none" => backlog.newest = backlog.submitted

(***************************************************************************)
(* Claims about the session, checked under Spec                            *)
(***************************************************************************)

\* C14: on session close the sender is drained before it stops: over a
\* transport whose writes do not fail, when the sender has exited the queue
\* holds no frame that was accepted before close() set isClosed_ (at most the
\* frames accepted after that are left in it).
C14_SenderDrains ==
    send.pc = "exited" => Len(sendQueue_) <= acceptedAfterClose

\* the receive loop finishes a CLSE frame: the stream is marked closed, its
\* ring buffer is closed and the registry is left as it was
ClseStep ==
    (recv.pc = "normal" /\ recv.frame.cmd = "CLSE" /\ recv'.pc = "loop") =>
        /\ streams'[recv.obj].closed
        /\ streams'[recv.obj].rbClosed
        /\ connectionStreams_' = connectionStreams_

\* no step clears the closed flag of a stream
ClosedStays ==
    \A o \in 1..Len(streams) : streams[o].closed => streams'[o].closed

\* the step is the start of streamClose(id)
StreamCloseOf(id) ==
    \E a \in Apps : /\ app[a].pc = "idle"
                    /\ app'[a].op = "streamClose"
                    /\ app'[a].id = id

\* the step is open() giving up on id: it found the stream it was waiting
\* for already closed, erases the entry and throws
OpenRefusedOf(id) ==
    \E a \in Apps : /\ app[a].pc = "open_check"
                    /\ app[a].id = id
                    /\ app'[a].result = "openRefused"

\* the step removes the registry entry of a stream that a CLSE has closed
ReapsClosed(id) ==
    /\ connectionStreams_[id] # 0
    /\ streams[connectionStreams_[id]].closed
    /\ connectionStreams_'[id] = 0

\* C15 as stated: when the receive loop processes a CLSE for a registered
\* stream the closed flag is set and never cleared, the ring buffer is closed,
\* and the registry entry stays until the owner calls streamClose(local_id):
\* no other step removes it.
C15_EntryUntilStreamClose ==
    [][/\ ClseStep
       /\ ClosedStays
       /\ \A id \in Ids : ReapsClosed(id) => StreamCloseOf(id)]_vars

\* C15, amended: as above, but the entry of a stream closed by CLSE is removed
\* by streamClose(local_id), by the open() call that was still waiting for
\* the stream (it erases the entry and fails), or by close() of the session.
C15_EntryUntilReaped ==
    [][/\ ClseStep
       /\ ClosedStays
       /\ \A id \in Ids :
              ReapsClosed(id) =>
                  StreamCloseOf(id) \/ OpenRefusedOf(id) \/ isClosed_]_vars

\* a CLSE has closed a stream that open() had returned: the stream is marked
\* closed, its ring buffer is closed, and its entry is still registered
C15_Witness ==
    \E id \in handles :
        /\ ~isClosed_
        /\ connectionStreams_[id] # 0
        /\ streams[connectionStreams_[id]].closed
        /\ streams[connectionStreams_[id]].rbClosed
        /\ recv.pc = "loop"

(***************************************************************************)
(* Claims about connect(), checked under HandshakeSpec                     *)
(***************************************************************************)

\* C17: after a successful connect() the recorded max payload is the smaller
\* of the max payload the peer advertised in its CNXN (arg1) and this side's
\* cap of 15 * 1024.
C17_MaxPayloadRecorded ==
    (connectCall.pc = "returned" /\ connectCall.result = 0) =>
        maxData_ = Min(connectCall.message.arg1, CONNECT_MAXDATA)

\* C18: during one connect() the onWaitAuth callback is invoked at most once,
\* and, where a callback was passed, exactly once if and only if the
\* AUTH/RSA_PUBLIC frame was sent; the invocation comes after that frame is
\* written and before the wait for the final CNXN.
C18_OnWaitAuthOnce ==
    /\ [](connectCall.waitAuthCalls <= 1)
    /\ [](connectCall.pc \in {"read3", "final", "returned", "threw"} =>
             (connectCall.waitAuthCalls = 1
                  <=> (connectCall.sentRsa /\ connectCall.onWaitAuth)))
    /\ [][connectCall'.waitAuthCalls # connectCall.waitAuthCalls =>
             /\ connectCall.sentRsa
             /\ connectCall.pc = "onWaitAuth"
             /\ connectCall'.pc = "read3"]_vars

\* connect() returned 0 after the public-key round and one onWaitAuth call
C18_Witness ==
    /\ connectCall.pc = "returned"
    /\ connectCall.result = 0
    /\ connectCall.sentRsa
    /\ connectCall.waitAuthCalls = 1

\* C19: connect() returns 0 and starts the receive thread only if the last
\* handshake message it received is CNXN; when it returns on any other
\* outcome (unexpected first command, a reply other than CNXN after
\* RSA_PUBLIC, a timeout in the first or the last wait) it returns a non-zero
\* code, has closed the transport and has started no receive thread.
C19_SuccessOnlyOnCnxn ==
    /\ (connectCall.pc = "returned" /\ connectCall.result = 0) =>
          /\ connectCall.message.cmd = "CNXN"
          /\ handleInRunning_
          /\ handleInThread_ = "joinable"
          /\ ~chClosed
    /\ handleInThread_ # "none" =>
          /\ connectCall.pc = "returned"
          /\ connectCall.result = 0
    /\ (connectCall.pc = "returned" /\ connectCall.message.cmd # "CNXN") =>
          connectCall.result # 0
    /\ (connectCall.pc = "returned" /\ connectCall.result # 0) =>
          /\ chClosed
          /\ handleInThread_ = "none"
          /\ connectCall.result \in {0 - 1, 0 - 3, 0 - 4, 0 - 5}

\* connect() returned -3: the peer answered the public key with a message
\* that is not CNXN
C19_Witness ==
    /\ connectCall.pc = "returned"
    /\ connectCall.result = 0 - 3
    /\ connectCall.sentRsa
    /\ connectCall.message.cmd # "CNXN"

(***************************************************************************)
(* Claims about concurrent open() calls, checked under OpenSpec            *)
(***************************************************************************)

\* C20: any two open() calls that both return, calls running at the same
\* time on different threads included, return distinct local ids: no id is
\* returned twice.
C20_DistinctIds ==
    \A i \in Ids : openCount[i] <= 1

(***************************************************************************)
(* Claims about the control thread, checked under ControlSpec              *)
(***************************************************************************)
\* the bytes of stream m the device has sent or will send that no read has
\* taken out of the ring buffer yet
Unread(m) ==
    BLen(BJoin(peer[m].script))
    + (IF mediaReg[m] = 0 THEN 0 ELSE BLen(mediaObjs[m][mediaReg[m]].buf))
\* the position in the device's bytes up to which stream m has been read
ReadPos(m) == BLen(peer[m].all) - Unread(m)

\* the device messages at the front of s, which starts at offset off of the
\* control stream, as the protocol frames them: kind, offset of the first
\* byte after the message, and the text of a CLIPBOARD message.  The list
\* ends with a marker at a message that is cut short or whose length is
\* negative or over MAX_CLIPBOARD.
RECURSIVE DeviceMsgs(_, _)
DeviceMsgs(s, off) ==
    IF s = <<>> THEN <<>>
    ELSE
      LET t == BGet(s, 1)
          Msg(kind, len, text) ==
              IF BLen(s) < len
              THEN <<[kind |-> "partial", end |-> off, text |-> <<>>]>>
              ELSE <<[kind |-> kind, end |-> off + len, text |-> text]>>
                   \o DeviceMsgs(BDrop(s, len), off + len)
      IN  CASE t = 0 ->
                 IF BLen(s) < 5 THEN Msg("partial", 5, <<>>)
                 ELSE LET clipLen == readInt32BE(s, 2)
                      IN  IF clipLen < 0 \/ clipLen > MAX_CLIPBOARD
                          THEN <<[kind |-> "oversized", end |-> off, text |-> <<>>]>>
                          ELSE Msg("clipboard", 5 + clipLen, BTake(BDrop(s, 5), clipLen))
            [] t = 1 -> Msg("ack", 9, <<>>)
            [] t = 2 ->
                 IF BLen(s) < 5 THEN Msg("partial", 5, <<>>)
                 ELSE Msg("uhid", 5 + Uint16BE(BDrop(s, 3)), <<>>)
            [] OTHER -> Msg("unknown", 1, <<>>)

\* the control stream is read up to a message boundary and every message
\* before it is well framed
AtBoundary ==
    /\ framer["control"].pc = "c_loop"
    /\ \A i \in DOMAIN DeviceMsgs(peer["control"].all, 0) :
          LET d == DeviceMsgs(peer["control"].all, 0)[i]
          IN  d.kind = "oversized" => ReadPos("control") <= d.end
\* the messages that end at or before the position read
MsgsRead ==
    SelectSeq(DeviceMsgs(peer["control"].all, 0),
              LAMBDA d : d.kind \notin {"partial", "oversized"}
                         /\ d.end <= ReadPos("control"))
\* the texts of the clipboard events emitted so far
ClipboardEvents ==
    LET ev == SelectSeq(events, LAMBDA e : e.type = "clipboard")
    IN  [i \in DOMAIN ev |-> ev[i].data]
\* the texts of the CLIPBOARD messages among q
TextsOf(q) == [i \in DOMAIN q |-> q[i].text]

\* C29 as stated: whenever the control thread is between two messages, it has
\* read exactly up to the end of a message, and it has emitted one clipboard
\* event, with the message's bytes, for every CLIPBOARD message of 0 to
\* 100000 bytes it has read.
C29_ClipboardAnyLength ==
    AtBoundary =>
        /\ ReadPos("control") \in
              {0} \cup {MsgsRead[i].end : i \in DOMAIN MsgsRead}
        /\ ClipboardEvents =
              TextsOf(SelectSeq(MsgsRead, LAMBDA d : d.kind = "clipboard"))

\* C29 as amended: the same for the CLIPBOARD messages of 1 to 100000 bytes;
\* a CLIPBOARD message of length 0 is consumed (type byte and length) without
\* an event.
C29_ClipboardNonEmpty ==
    AtBoundary =>
        /\ ReadPos("control") \in
              {0} \cup {MsgsRead[i].end : i \in DOMAIN MsgsRead}
        /\ ClipboardEvents =
              TextsOf(SelectSeq(MsgsRead,
                                LAMBDA d : d.kind = "clipboard" /\ d.text # <<>>))

\* a clipboard text of MAX_CLIPBOARD bytes was emitted and the message after
\* it has been read as well
C29_Witness ==
    /\ AtBoundary
    /\ Len(events) = 1
    /\ events[1].type = "clipboard"
    /\ BLen(events[1].data) = MAX_CLIPBOARD
    /\ Len(MsgsRead) = 2
    /\ ReadPos("control") = MsgsRead[2].end

\* C30: a type byte that is none of CLIPBOARD, ACK_CLIPBOARD and UHID_OUTPUT
\* costs exactly that byte: with it in hand the control thread takes nothing
\* more out of the stream, emits nothing and goes back to read the next type
\* byte instead of returning.
C30_UnknownTypeSkipped ==
    [][(/\ framer["control"].pc = "c_type"
        /\ running_
        /\ BGet(framer["control"].got, 1) \notin {0, 1, 2}
        /\ framer'["control"] # framer["control"])
       => (/\ BLen(framer["control"].got) = 1
           /\ framer'["control"].pc = "c_loop"
           /\ events' = events
           /\ mediaObjs' = mediaObjs)]_vars

\* the stream began with an unknown type byte and the CLIPBOARD message behind
\* it came out as an event
C30_Witness ==
    /\ BGet(peer["control"].all, 1) \notin {0, 1, 2}
    /\ framer["control"].pc = "c_loop"
    /\ ReadPos("control") = BLen(peer["control"].all)
    /\ Len(events) = 1
    /\ events[1].type = "clipboard"

(***************************************************************************)
(* Claims about the audio thread, checked under AudioSpec                  *)
(***************************************************************************)

\* the audio thread acts on the codec id it has read
AudioCodecDecided ==
    /\ framer["audio"].pc = "a_codec"
    /\ framer'["audio"].pc # "a_codec"

\* the last event emitted by the step is of type t
EmitsOne(t) ==
    /\ Len(events') = Len(events) + 1
    /\ events'[Len(events')].type = t

\* C27: when the 4-byte codec id of the audio stream is the sentinel 1, the
\* audio task emits an `error' event and terminates without initialising a
\* decoder; when it is the sentinel 0 it emits `audio_disabled' and
\* terminates without an `error' event.
C27_SentinelEvents ==
    [][AudioCodecDecided =>
         LET codecId == readInt32BE(framer["audio"].got, 1)
         IN  /\ codecId = 1 => /\ EmitsOne("error")
                               /\ framer'["audio"].pc = "done"
                               /\ decoders'["audio"].codec = "none"
             /\ codecId = 0 => /\ EmitsOne("audio_disabled")
                               /\ framer'["audio"].pc = "done"
                               /\ decoders'["audio"].codec = "none"]_vars

(***************************************************************************)
(* Claims about the video thread, checked under VideoSpec                  *)
(***************************************************************************)

\* the codec id the device put into the video header, and the ids the
\* protocol defines: 0, 1, 2, "h264", "h265", "\0av1"
VideoCodecIdSent == readInt32BE(peer["video"].all, 2 + DEVICE_NAME_LEN)
KnownVideoCodecIds == {0, 1, 2, 1748121140, 1748121141, 6387249}

\* C28: a video stream header whose codec_id is not one of the known values
\* fails the video stream: no decoder is initialised or fed for it (an
\* unknown audio codec id instead falls back to Opus; the audio half is the
\* default branch of AudioCodecName).
C28_UnknownVideoCodecFails ==
    VideoCodecIdSent \notin KnownVideoCodecIds
        => /\ decoders["video"].codec = "none"
           /\ decoders["video"].submitted = <<>>

\* what the video decoder has been handed
VideoSubmitted == decoders["video"].submitted

\* C22: for a video packet with the CONFIG bit set followed by the next
\* non-config packet, the decoder receives exactly one submission, the
\* config bytes followed by the non-config payload, with the PTS of the
\* non-config packet and with CODEC_DATA cleared; the config packet is never
\* submitted on its own.
C22_ConfigMerged ==
    \A i \in DOMAIN VideoSubmitted :
        /\ VideoSubmitted[i].data # ConfigPayload
        /\ VideoSubmitted[i].flags # CODEC_DATA

\* the video thread acts on the frame size it has read
VideoSizeDecided ==
    /\ framer["video"].pc = "v_size"
    /\ framer'["video"].pc # "v_size"

\* the video thread is past its loop: it reads nothing and submits nothing
VideoTaskOver == framer["video"].pc \in {"v_exit", "done"}

C24_BoundedRetries == decoders["video"].refused <= MAX_WAIT_FOR_DECODER

(***************************************************************************)
(* Claims about the events of a session and about stop()                   *)
(***************************************************************************)

\* how many `disconnected' events name stream m, and the `error' events
Disconnected(m) ==
    Cardinality({i \in DOMAIN events :
                    events[i].type = "disconnected" /\ events[i].data = m})
Errors == {i \in DOMAIN events : events[i].type = "error"}

\* C25 (checked under AudioSpec): when a started media stream is closed by
\* the peer while the stream manager is still running, its framer thread
\* terminates and emits exactly one `disconnected' event whose payload names
\* that stream.
C25_PeerCloseDisconnected ==
    \A m \in Media :
        (running_ /\ framer[m].pc = "done" /\ framer[m].what = "Stream closed")
            => Disconnected(m) = 1

\* C26 (checked under ManagerSpec): after a graceful shutdown of a running
\* session with all three streams started, exactly one `disconnected' event
\* has been emitted per started media stream and no `error' event.
C26_GracefulStopEvents ==
    stopCall.pc = "returned"
        => /\ \A m \in Media : Disconnected(m) = 1
           /\ Errors = {}

\* C21 (checked under ManagerSpec): stop() always returns, and when it
\* returns every started framer thread has terminated: a framer blocked in an
\* untimed read is woken because stop() closes each stream, and a framer
\* retrying for a decoder input buffer leaves its loop once running is false.
\* So while stop() is under way it or a framer thread can take a step, and
\* it returns only with the three threads joined.
C21_StopReturns ==
    /\ stopCall.pc \notin {"idle", "returned"} => ENABLED ManagerStep
    /\ (stopCall.pc = "returned" /\ ~running_)
          => \A m \in Media : mediaThread[m] = "joinable" => framer[m].pc = "done"

(***************************************************************************)
(* Claim about the presentation times, checked under VideoSpec             *)
(***************************************************************************)

\* C31: for every 64-bit wire PTS the presentation time handed to the
\* decoder is bits 61..0 of the wire value, the flag bits 63 (CONFIG) and 62
\* (KEY_FRAME) masked off, on the video stream as on the audio stream: the
\* first byte of a submitted PTS is below 64.
C31_PtsFlagsMasked ==
    \A d \in DOMAIN decoders :
        \A i \in DOMAIN decoders[d].submitted :
            decoders[d].submitted[i].pts # <<>>
                => BGet(decoders[d].submitted[i].pts, 1) < 64

(* Claim about the two stream registries, checked under Spec *)
\* C33: every stream registered in connectionStreams_ is registered in
\* openStreams_ under the same id, so the cleanup of Adb::close(), which
\* iterates openStreams_ only, frees every stream: once close() has returned
\* no stream object is left unfreed.
C33_ConnectionWithinOpen ==
    /\ \A i \in Ids : connectionStreams_[i] # 0
                        => openStreams_[i] = connectionStreams_[i]
    /\ closeReturned => \A o \in 1..Len(streams) : streams[o].freed

(* ---- streamWrite under every recorded max payload ----------------------- *)

\* the frames the writer may have queued ahead of the sender
MaxQueued == 3

\* values of CNXN arg0 that connect() records in maxData_: below, at and
\* above the 128 bytes that streamWriteRaw subtracts
RecordedMaxData ==
    {1, CHUNK_RESERVE - 1, CHUNK_RESERVE, CHUNK_RESERVE + 1, CHUNK_RESERVE + MaxChunk}

\* a connected session on which open("shell:", true) has returned local id 1,
\* whose peer's CNXN carried any of RecordedMaxData in arg0
WriteInit ==
    /\ RingInit
    /\ NativeIdle
    /\ MgrInit
    /\ isClosed_ = FALSE
    /\ handleInRunning_ = TRUE
    /\ sendRunning_ = TRUE
    /\ chClosed = FALSE
    /\ linkUp = TRUE
    /\ localIdPool_ = 2
    /\ \E r \in RemoteIds :
          streams = <<[AdbStream(1, r, TRUE) EXCEPT !.canWrite = TRUE]>>
    /\ connectionStreams_ = [NoEntries EXCEPT ![1] = 1]
    /\ openStreams_ = NoEntries
    /\ sendQueue_ = <<>>
    /\ sendMutex_ = "none"
    /\ sendParked = FALSE
    /\ sendNotified = FALSE
    /\ sendThread_ = "joinable"
    /\ handleInThread_ = "joinable"
    /\ recv = RecvAt("loop")
    /\ send = [pc |-> "loop", data |-> NoFrame]
    /\ app = [a \in Apps |-> AppIdle]
    /\ cl = [t \in Closers |-> NoCall]
    /\ inbound = 0
    /\ announced = {1}
    /\ handles = {1}
    /\ owned = {1}
    /\ closedIds = {}
    /\ closeReturned = FALSE
    /\ \E m \in RecordedMaxData :
          /\ maxData_ = m
          /\ connectCall = Connected(Message("CNXN", m, CONNECT_MAXDATA))
    /\ backlog = NoBacklog
    /\ txSubmitted = 0
    /\ txWritten = 0
    /\ acceptedAfterClose = 0
    /\ openCount = [i \in Ids |-> IF i = 1 THEN 1 ELSE 0]

\* streamWriteRaw_push while the writer is at most MaxQueued frames ahead
streamWriteRaw_ahead(a) ==
    /\ Len(sendQueue_) < MaxQueued
    /\ streamWriteRaw_push(a)

WriteNext ==
    \/ \E a \in Apps :
          \/ streamWrite_call(a)
          \/ streamWriteRaw_while(a)
          \/ streamWriteRaw_ahead(a)
          \/ app_return(a)
    \/ SendStep

\* the application writes on an open stream while the sender drains the queue
WriteSpec == WriteInit /\ [][WriteNext]_vars

\* C35: streamWrite(stream, data, len) terminates for every len and every max
\* payload recorded by connect(): each pass of the loop of streamWriteRaw
\* takes a chunk of at least one byte, so that the WRTE frames it enqueues
\* have non-empty payloads and the offset advances towards len.
C35_ChunksNonEmpty ==
    /\ \A i \in DOMAIN sendQueue_ :
           IsChunk(sendQueue_[i]) => sendQueue_[i].len > 0
    /\ \A a \in Apps :
           app[a].pc = "sw_push" => ChunkSize(app[a].size - app[a].offset) > 0

(* Claim about a refused OPEN, checked under Spec *)

\* the receive loop holds a CLSE for local id `id' whose stream the peer never
\* acknowledged with OKAY: the peer refuses the OPEN of id
RefusalInHand(id) ==
    /\ recv.pc = "normal"
    /\ recv.frame.cmd = "CLSE"
    /\ recv.frame.arg1 = id
    /\ ~streams[recv.obj].canWrite

\* C34: when the peer answers an OPEN with CLSE, open() does not return that
\* local id to its caller, whatever the interleaving of the receive loop and
\* the opener, and the stream object is not freed while the receive loop is
\* still using it.
C34_RefusedNeverReturned ==
    \A id \in Ids :
        RefusalInHand(id) =>
            /\ id \notin handles
            /\ \A a \in Apps : ~(app[a].id = id /\ app[a].result = "opened")
            /\ ~streams[recv.obj].freed

(***************************************************************************)
(* AdbProtocol::generateMessage and the read of a message from the         *)
(* channel.  A uint32_t is kept as its two 16-bit halves, a byte string as *)
(* runs of equal bytes.                                                    *)
(***************************************************************************)

\* the longest payload: 16843010 bytes of 255 sum to 2^32 + 254
MaxRun == 16843010

U32(hi, lo) == [hi |-> hi, lo |-> lo]

\* static_cast<uint32_t>(n) of a size n below 2^31
U32Of(n) == U32(n \div 65536, n % 65536)

\* x + b * n on uint32_t, b a byte and n a count below 2^31: the loop
\* for (i < len) checksum += payload[i] over a run of n bytes b
U32AddRun(x, b, n) ==
    LET t == x.lo + b * (n % 65536) IN
    U32((x.hi + t \div 65536 + b * (n \div 65536)) % 65536, t % 65536)

\* ~val
U32Not(val) == U32(65535 - val.hi, 65535 - val.lo)

\* the bytes are written most significant first
writeU32LE_BigEndian(val) ==
    <<val.hi \div 256, val.hi % 256, val.lo \div 256, val.lo % 256>>

\* result[off] = val & 0xFF; result[off + 1] = (val >> 8) & 0xFF; ..
writeU32LE(val) ==
    <<val.lo % 256, val.lo \div 256, val.hi % 256, val.hi \div 256>>

\* header[off] | header[off + 1] << 8 | header[off + 2] << 16
\* | header[off + 3] << 24, off counted from 0
readU32LE(header, off) ==
    U32(BGet(header, off + 4) * 256 + BGet(header, off + 3),
        BGet(header, off + 2) * 256 + BGet(header, off + 1))

\* AdbProtocol::payloadChecksum: the uint32_t sum of the bytes
RECURSIVE payloadChecksum(_)
payloadChecksum(payload) ==
    IF payload = <<>> THEN U32(0, 0)
    ELSE LET last == payload[Len(payload)] IN
         U32AddRun(payloadChecksum(SubSeq(payload, 1, Len(payload) - 1)),
                   last.b, last.n)

\* AdbProtocol::generateMessage: 24 header bytes, then the payload
generateMessage(cmd, arg0, arg1, payload) ==
    LET payloadLen == BLen(payload) IN
    BCat(Bytes(writeU32LE(cmd) \o writeU32LE(arg0) \o writeU32LE(arg1)
               \o (IF payloadLen = 0
                   THEN writeU32LE(U32(0, 0)) \o writeU32LE(U32(0, 0))
                   ELSE writeU32LE(U32Of(payloadLen))
                        \o writeU32LE(payloadChecksum(payload)))
               \o writeU32LE(U32Not(cmd))),
         payload)

\* CMD_AUTH .. CMD_WRTE, and two values that are no command
Commands ==
    {U32(18516, 21825), U32(20056, 20035), U32(20037, 20559), U32(22849, 19279),
     U32(17747, 19523), U32(17748, 21079), U32(0, 0), U32(65535, 65535)}

\* arguments: 0, 1, 256, 65536, 2^31 and 2^32 - 1 (a negative local id)
Args == {U32(0, 0), U32(0, 1), U32(0, 256), U32(1, 0), U32(32768, 0), U32(65535, 65535)}

Payloads == {<<>>, Run(1, 1), Bytes(<<255, 0>>), Bytes(<<0, 7, 7>>), Run(255, MaxRun)}

\* the bytes that follow the message on the channel: the start of a next one
Trailing == Bytes(<<67, 76>>)

WireInit ==
    /\ RingInit
    /\ MgrInit
    /\ AdbInit
    /\ ConnectedInit
    /\ IdleInit
    /\ bufferPool = NoPool
    /\ decoderCtx = NoDecoderCtx
    /\ processor = NoProcessor
    /\ \E c \in Commands, a0 \in Args, a1 \in Args, p \in Payloads :
          wire = [pc |-> "idle", cmd |-> c, arg0 |-> a0, arg1 |-> a1, payload |-> p,
                  result |-> <<>>, channel |-> <<>>,
                  msg |-> [command |-> U32(0, 0), arg0 |-> U32(0, 0),
                           arg1 |-> U32(0, 0), payloadLength |-> 0,
                           payload |-> <<>>]]

\* the sender builds the message; its bytes go on the channel, followed by
\* the bytes of what is sent next
generateMessage_call ==
    /\ wire.pc = "idle"
    /\ LET r == generateMessage(wire.cmd, wire.arg0, wire.arg1, wire.payload) IN
       wire' = [wire EXCEPT !.pc = "sent", !.result = r,
                            !.channel = BCat(r, Trailing)]
    /\ UNCHANGED <<mgrVars, ringVars, adbVars, bufferPool, decoderCtx, processor>>

\* readMessageFromChannel: read 24 bytes; command, arg0, arg1, payloadLength
\* = readU32LE(0), (4), (8), (12); checksum and magic are not looked at
readMessageFromChannel_header ==
    /\ wire.pc = "sent"
    /\ LET header == BTake(wire.channel, ADB_HEADER_LENGTH)
           len == readU32LE(header, 12)
       IN  wire' = [wire EXCEPT !.pc = "header",
                                !.channel = BDrop(@, ADB_HEADER_LENGTH),
                                !.msg = [command |-> readU32LE(header, 0),
                                         arg0 |-> readU32LE(header, 4),
                                         arg1 |-> readU32LE(header, 8),
                                         payloadLength |-> len.hi * 65536 + len.lo,
                                         payload |-> <<>>]]
    /\ UNCHANGED <<mgrVars, ringVars, adbVars, bufferPool, decoderCtx, processor>>

\* if (payloadLength > 0) read payloadLength bytes into msg.payload
readMessageFromChannel_payload ==
    /\ wire.pc = "header"
    /\ LET n == wire.msg.payloadLength IN
       wire' = [wire EXCEPT !.pc = "read",
                            !.msg.payload = BTake(wire.channel, n),
                            !.channel = BDrop(@, n)]
    /\ UNCHANGED <<mgrVars, ringVars, adbVars, bufferPool, decoderCtx, processor>>

WireNext ==
    \/ generateMessage_call
    \/ readMessageFromChannel_header
    \/ readMessageFromChannel_payload

\* one message is built, sent and read back
WireSpec == WireInit /\ [][WireNext]_vars

\* the sum of the bytes of p modulo 2^32, in closed form: with every run
\* length n split as 65536 * q + r, the sum is 65536 * SumHigh + SumLow
RECURSIVE SumLow(_)
SumLow(p) == IF p = <<>> THEN 0 ELSE p[1].b * (p[1].n % 65536) + SumLow(Tail(p))
RECURSIVE SumHigh(_)
SumHigh(p) == IF p = <<>> THEN 0 ELSE p[1].b * (p[1].n \div 65536) + SumHigh(Tail(p))
SumMod32(p) ==
    U32((SumHigh(p) + SumLow(p) \div 65536) % 65536, SumLow(p) % 65536)

\* C32: for every command, arg0, arg1 and payload, reading back the bytes of
\* generateMessage yields the same command, arg0, arg1 and payload and leaves
\* what follows on the channel; the frame has exactly 24 + payload_length
\* bytes, its checksum field is the sum of the payload bytes modulo 2^32 and
\* its magic field is the bitwise NOT of the command.
C32_RoundTrip ==
    /\ wire.pc \in {"sent", "header", "read"} =>
          /\ BLen(wire.result) = ADB_HEADER_LENGTH + BLen(wire.payload)
          /\ readU32LE(wire.result, 16) = SumMod32(wire.payload)
          /\ readU32LE(wire.result, 20) = U32Not(wire.cmd)
          /\ BDrop(wire.result, ADB_HEADER_LENGTH) = wire.payload
    /\ wire.pc = "read" =>
          /\ wire.msg.command = wire.cmd
          /\ wire.msg.arg0 = wire.arg0
          /\ wire.msg.arg1 = wire.arg1
          /\ wire.msg.payloadLength = BLen(wire.payload)
          /\ wire.msg.payload = wire.payload
          /\ wire.channel = Trailing

\* a WRTE message whose payload sum passes 2^32 has been read back
C32_Witness ==
    /\ wire.pc = "read"
    /\ wire.cmd = U32(17748, 21079)
    /\ wire.arg0 = U32(65535, 65535)
    /\ BLen(wire.payload) = MaxRun
    /\ readU32LE(wire.result, 16) = U32(0, 254)

(***************************************************************************)
(* NativeBufferPool: the pool entries, the heap they are allocated from    *)
(* and the clients that hold buffers.  A client releases a buffer by id    *)
(* and pointer, or first by hand through Release(ptr) and later once more  *)
(* from the finalizer that still carries the (id, ptr) of its allocation.  *)
(***************************************************************************)

\* constructor arguments: entries in the pool and their first capacity
PoolSize == 2
BufferSize == 2
\* the largest size a client asks for
MaxRequest == 3
\* addresses the heap can hand out
MaxPtrs == 4

Ptrs == 1..MaxPtrs
Clients == {"c1", "c2"}

NoHandle == [id |-> -2, ptr |-> 0, capacity |-> 0]

\* NativeBufferPool::NativeBufferPool: poolSize entries of bufferSize bytes
PoolConstructed ==
    [pool_ |-> [i \in 1..PoolSize |-> [data |-> i, capacity |-> BufferSize,
                                       inUse |-> FALSE]],
     destroyed_ |-> FALSE,
     heap |-> [q \in Ptrs |-> IF q <= PoolSize THEN "live" ELSE "unused"],
     fault |-> "none",
     held |-> [c \in Clients |-> NoHandle],
     stale |-> [c \in Clients |-> NoHandle]]

\* free(ptr): freeing an address that is not allocated is a double free
free(bp, ptr) ==
    IF bp.heap[ptr] = "live" THEN [bp EXCEPT !.heap[ptr] = "freed"]
    ELSE [bp EXCEPT !.fault = "doubleFree"]

\* the addresses malloc may return: any that is not allocated now
Mallocable(bp) == {q \in Ptrs : bp.heap[q] # "live"}

\* the entries (counted from 1) that satisfy a test, lowest first
FirstEntry(bp, Test(_)) ==
    IF \E i \in DOMAIN bp.pool_ : Test(bp.pool_[i])
    THEN CHOOSE i \in DOMAIN bp.pool_ :
             /\ Test(bp.pool_[i])
             /\ \A j \in 1..(i - 1) : ~Test(bp.pool_[j])
    ELSE 0

\* the scan `for (auto& entry : pool_) if (entry.data == ptr) { inUse =
\* false; found = true; break; }` and, when nothing is found, free(ptr)
ScanRelease(bp, ptr) ==
    LET IsPtr(e) == e.data = ptr
        i == FirstEntry(bp, IsPtr)
    IN  IF i # 0 THEN [bp EXCEPT !.pool_[i].inUse = FALSE]
        ELSE free(bp, ptr)

\* NativeBufferPool::Release(int32_t bufferId, uint8_t* ptr), ptr not null
Release(bp, bufferId, ptr) ==
    IF bufferId >= 0 /\ bufferId < Len(bp.pool_)
    THEN IF bp.pool_[bufferId + 1].data = ptr
         THEN [bp EXCEPT !.pool_[bufferId + 1].inUse = FALSE]
         ELSE ScanRelease(bp, ptr)
    ELSE ScanRelease(bp, ptr)

\* NativeBufferPool::Release(uint8_t* ptr): only marks a pool entry free
ReleasePtr(bp, ptr) ==
    LET IsPtr(e) == e.data = ptr
        i == FirstEntry(bp, IsPtr)
    IN  IF i # 0 THEN [bp EXCEPT !.pool_[i].inUse = FALSE] ELSE bp

\* NativeBufferPool::Alloc for client c: a free entry that is large enough,
\* else a free entry resized by realloc (which may move it), else malloc
pool_Alloc(c) ==
    /\ bufferPool.held[c] = NoHandle
    /\ bufferPool.stale[c] = NoHandle
    /\ \E requestedSize \in 1..MaxRequest :
          LET bp == bufferPool
              Fits(e) == ~e.inUse /\ e.capacity >= requestedSize
              Free(e) == ~e.inUse
              fit == FirstEntry(bp, Fits)
              any == FirstEntry(bp, Free)
          IN  IF ~bp.destroyed_ /\ fit # 0
              THEN bufferPool' =
                       [bp EXCEPT !.pool_[fit].inUse = TRUE,
                                  !.held[c] = [id |-> fit - 1,
                                               ptr |-> bp.pool_[fit].data,
                                               capacity |-> bp.pool_[fit].capacity]]
              ELSE IF ~bp.destroyed_ /\ any # 0
              THEN \E newData \in {bp.pool_[any].data} \cup Mallocable(bp) :
                     LET moved == IF newData = bp.pool_[any].data THEN bp
                                  ELSE [free(bp, bp.pool_[any].data)
                                            EXCEPT !.heap[newData] = "live"]
                     IN  bufferPool' =
                             [moved EXCEPT !.pool_[any] =
                                               [data |-> newData,
                                                capacity |-> requestedSize,
                                                inUse |-> TRUE],
                                           !.held[c] = [id |-> any - 1,
                                                        ptr |-> newData,
                                                        capacity |-> requestedSize]]
              ELSE \E ptr \in Mallocable(bp) :
                     bufferPool' =
                         [bp EXCEPT !.heap[ptr] = "live",
                                    !.held[c] = [id |-> -1, ptr |-> ptr,
                                                 capacity |-> requestedSize]]
    /\ UNCHANGED <<mgrVars, ringVars, adbVars, wire, decoderCtx, processor>>

\* the holder gives its buffer back with Release(bufferId, ptr)
pool_Release(c) ==
    /\ bufferPool.held[c] # NoHandle
    /\ bufferPool' =
           [Release(bufferPool, bufferPool.held[c].id, bufferPool.held[c].ptr)
                EXCEPT !.held[c] = NoHandle]
    /\ UNCHANGED <<mgrVars, ringVars, adbVars, wire, decoderCtx, processor>>

\* the holder gives its buffer back by hand with Release(ptr); the finalizer
\* of the array buffer made from it is still to come
pool_ReleasePtr(c) ==
    /\ bufferPool.held[c] # NoHandle
    /\ bufferPool' =
           [ReleasePtr(bufferPool, bufferPool.held[c].ptr)
                EXCEPT !.held[c] = NoHandle, !.stale[c] = bufferPool.held[c]]
    /\ UNCHANGED <<mgrVars, ringVars, adbVars, wire, decoderCtx, processor>>

\* the late release: the finalizer calls Release(bufferId, ptr) with the id
\* and pointer of an allocation that was given back already
pool_Finalize(c) ==
    /\ bufferPool.stale[c] # NoHandle
    /\ bufferPool' =
           [Release(bufferPool, bufferPool.stale[c].id, bufferPool.stale[c].ptr)
                EXCEPT !.stale[c] = NoHandle]
    /\ UNCHANGED <<mgrVars, ringVars, adbVars, wire, decoderCtx, processor>>

\* NativeBufferPool::ReleaseAll: destroyed_ = true; free every entry's data;
\* pool_.clear()
RECURSIVE FreeEntries(_, _)
FreeEntries(bp, i) ==
    IF i > Len(bp.pool_) THEN bp
    ELSE FreeEntries(free(bp, bp.pool_[i].data), i + 1)

pool_ReleaseAll ==
    /\ ~bufferPool.destroyed_
    /\ bufferPool' = [FreeEntries(bufferPool, 1) EXCEPT !.destroyed_ = TRUE,
                                                        !.pool_ = <<>>]
    /\ UNCHANGED <<mgrVars, ringVars, adbVars, wire, decoderCtx, processor>>

PoolInit ==
    /\ RingInit
    /\ MgrInit
    /\ AdbInit
    /\ ConnectedInit
    /\ IdleInit
    /\ wire = NoWire
    /\ decoderCtx = NoDecoderCtx
    /\ processor = NoProcessor
    /\ bufferPool = PoolConstructed

PoolNext ==
    \/ \E c \in Clients :
          \/ pool_Alloc(c)
          \/ pool_Release(c)
          \/ pool_ReleasePtr(c)
          \/ pool_Finalize(c)
    \/ pool_ReleaseAll

\* two clients of one pool
PoolSpec == PoolInit /\ [][PoolNext]_vars

\* C40: a buffer handed out by Alloc is not handed out again, resized or
\* freed until its holder releases it, no buffer is freed twice, and a late
\* stale Release leaves the buffers of the other holders untouched.
C40_ExclusiveUntilReleased ==
    /\ bufferPool.fault = "none"
    /\ \A c \in Clients :
           LET h == bufferPool.held[c] IN
           h # NoHandle =>
               /\ bufferPool.heap[h.ptr] = "live"
               /\ \A d \in Clients \ {c} : bufferPool.held[d].ptr # h.ptr
               /\ h.id >= 0 =>
                      /\ h.id < Len(bufferPool.pool_)
                      /\ bufferPool.pool_[h.id + 1] =
                             [data |-> h.ptr, capacity |-> h.capacity, inUse |-> TRUE]

(***************************************************************************)
(* VideoDecoderNative: the input side.  The codec owns the input buffers   *)
(* and offers them through OnNeedInputBuffer; PushData and                 *)
(* PushFromRingBuffer take one from the queue, fill it and submit it.  A   *)
(* buffer is named by its index; inputBuffers is used as the map from      *)
(* index to buffer that video_decoder_native.cpp makes of it.              *)
(***************************************************************************)

\* input buffers of the codec, their capacity, and the largest input
NumInputBuffers == 2
InputCapacity == 2
MaxInputSize == 3

Indices == 1..NumInputBuffers
\* the threads that push: the caller of the pushData entry point, and the
\* processing thread of a stream processor
Callers == {"napi", "thread"}

CallIdle == [pc |-> "idle", fn |-> "none", bufferIndex |-> 0, buffer |-> FALSE,
             size |-> 0, flags |-> 0, ret |-> 0]

\* a started decoder whose codec has not offered any input buffer yet
DecoderStarted ==
    [inputBufferQueue |-> <<>>, inputBuffers |-> {}, codec |-> Indices,
     call |-> [k \in Callers |-> CallIdle],
     lastInput |-> [bufferIndex |-> 0, size |-> 0, flags |-> 0]]

InQueue(ctx, i) == \E n \in DOMAIN ctx.inputBufferQueue : ctx.inputBufferQueue[n] = i

\* under queueMutex: if (!inputBufferQueue.empty()) { bufferIndex = front();
\* pop(); it = inputBuffers.find(bufferIndex); if found: buffer = it->second,
\* erase(it); }
TakeInput(ctx) ==
    IF ctx.inputBufferQueue = <<>>
    THEN [ctx |-> ctx, bufferIndex |-> 0, buffer |-> FALSE]
    ELSE LET i == Head(ctx.inputBufferQueue) IN
         [ctx |-> [ctx EXCEPT !.inputBufferQueue = Tail(@),
                              !.inputBuffers = @ \ {i}],
          bufferIndex |-> i,
          buffer |-> i \in ctx.inputBuffers]

\* under queueMutex: inputBufferQueue.push(bufferIndex);
\* inputBuffers[bufferIndex] = buffer;
PutBack(ctx, i) ==
    [ctx EXCEPT !.inputBufferQueue = Append(@, i), !.inputBuffers = @ \cup {i}]

\* OH_VideoDecoder_PushInputBuffer returned AV_ERR_OK: the codec has the
\* buffer again, with the attributes that were set on it
Submitted(ctx, c) ==
    [ctx EXCEPT !.codec = @ \cup {c.bufferIndex},
                !.lastInput = [bufferIndex |-> c.bufferIndex, size |-> c.size,
                               flags |-> c.flags]]

\* VideoDecoderNative::PushData after the buffer was taken, for the answers
\* attrOk of OH_AVBuffer_SetBufferAttr and pushOk of
\* OH_VideoDecoder_PushInputBuffer: the context and the return value
PushDataEnd(ctx, c, attrOk, pushOk) ==
    IF InputCapacity < c.size THEN [ctx |-> ctx, ret |-> -1]
    ELSE IF ~attrOk THEN [ctx |-> ctx, ret |-> -1]
    ELSE IF ~pushOk
    THEN [ctx |-> [ctx EXCEPT !.inputBuffers = @ \cup {c.bufferIndex}], ret |-> -1]
    ELSE [ctx |-> Submitted(ctx, c), ret |-> 0]

\* VideoDecoderNative::PushFromRingBuffer after the buffer was taken, readOk
\* telling whether ringBuffer->Read gave all size bytes
PushFromRingBufferEnd(ctx, c, readOk, attrOk, pushOk) ==
    IF InputCapacity < c.size THEN [ctx |-> PutBack(ctx, c.bufferIndex), ret |-> -1]
    ELSE IF ~readOk THEN [ctx |-> PutBack(ctx, c.bufferIndex), ret |-> -1]
    ELSE IF ~attrOk THEN [ctx |-> ctx, ret |-> -1]
    ELSE IF ~pushOk THEN [ctx |-> PutBack(ctx, c.bufferIndex), ret |-> -1]
    ELSE [ctx |-> Submitted(ctx, c), ret |-> 0]

\* the first part of both functions for caller k: take a buffer, return -2
\* when there is none
TakeFor(ctx, k, fn, inputSize, flags) ==
    LET t == TakeInput(ctx) IN
    [t.ctx EXCEPT !.call[k] =
        [pc |-> IF t.buffer THEN "taken" ELSE "returned", fn |-> fn,
         bufferIndex |-> t.bufferIndex, buffer |-> t.buffer, size |-> inputSize,
         flags |-> flags, ret |-> IF t.buffer THEN 0 ELSE -2]]

\* VideoDecoderNative::OnNeedInputBuffer(codec, index, buffer, userData) with
\* a buffer: inputBuffers[index] = buffer; inputBufferQueue.push(index)
OnNeedInputBuffer(index) ==
    /\ decoderCtx # NoDecoderCtx
    /\ index \in decoderCtx.codec
    /\ decoderCtx' = [PutBack(decoderCtx, index) EXCEPT !.codec = @ \ {index}]
    /\ UNCHANGED <<mgrVars, ringVars, adbVars, wire, bufferPool, processor>>

\* the pushData entry point calls VideoDecoderNative::PushData(data, size,
\* pts, flags) on a started decoder
PushData_call(k) ==
    /\ decoderCtx # NoDecoderCtx
    /\ decoderCtx.call[k].pc = "idle"
    /\ \E inputSize \in 1..MaxInputSize, flags \in {0, CODEC_DATA} :
          decoderCtx' = TakeFor(decoderCtx, k, "PushData", inputSize, flags)
    /\ UNCHANGED <<mgrVars, ringVars, adbVars, wire, bufferPool, processor>>

\* the rest of PushData: capacity test, memcpy, attributes, submission
PushData_rest(k) ==
    /\ decoderCtx # NoDecoderCtx
    /\ decoderCtx.call[k].pc = "taken"
    /\ decoderCtx.call[k].fn = "PushData"
    /\ \E attrOk \in BOOLEAN, pushOk \in BOOLEAN :
          LET r == PushDataEnd(decoderCtx, decoderCtx.call[k], attrOk, pushOk) IN
          decoderCtx' = [r.ctx EXCEPT !.call[k].pc = "returned",
                                      !.call[k].ret = r.ret]
    /\ UNCHANGED <<mgrVars, ringVars, adbVars, wire, bufferPool, processor>>

\* a caller with a ring buffer of its own calls PushFromRingBuffer
PushFromRingBuffer_call(k) ==
    /\ decoderCtx.call[k].pc = "idle"
    /\ \E inputSize \in 1..MaxInputSize, flags \in {0, CODEC_DATA} :
          decoderCtx' = TakeFor(decoderCtx, k, "PushFromRingBuffer", inputSize, flags)
    /\ UNCHANGED <<mgrVars, ringVars, adbVars, wire, bufferPool, processor>>

\* the rest of PushFromRingBuffer, the ring buffer holding size bytes or not
PushFromRingBuffer_rest(k) ==
    /\ decoderCtx.call[k].pc = "taken"
    /\ decoderCtx.call[k].fn = "PushFromRingBuffer"
    /\ \E readOk \in BOOLEAN, attrOk \in BOOLEAN, pushOk \in BOOLEAN :
          LET r == PushFromRingBufferEnd(decoderCtx, decoderCtx.call[k],
                                         readOk, attrOk, pushOk) IN
          decoderCtx' = [r.ctx EXCEPT !.call[k].pc = "returned",
                                      !.call[k].ret = r.ret]
    /\ UNCHANGED <<mgrVars, ringVars, adbVars, wire, bufferPool, processor>>

\* the call returns to its caller
Push_return(k) ==
    /\ decoderCtx # NoDecoderCtx
    /\ decoderCtx.call[k].pc = "returned"
    /\ decoderCtx' = [decoderCtx EXCEPT !.call[k] = CallIdle]
    /\ UNCHANGED <<mgrVars, ringVars, adbVars, wire, bufferPool, processor>>

DecoderInit ==
    /\ RingInit
    /\ MgrInit
    /\ AdbInit
    /\ ConnectedInit
    /\ IdleInit
    /\ wire = NoWire
    /\ bufferPool = NoPool
    /\ processor = NoProcessor
    /\ decoderCtx = DecoderStarted

DecoderNext ==
    \/ \E index \in Indices : OnNeedInputBuffer(index)
    \/ \E k \in Callers :
          \/ PushData_call(k)
          \/ PushData_rest(k)
          \/ PushFromRingBuffer_call(k)
          \/ PushFromRingBuffer_rest(k)
          \/ Push_return(k)

\* a started decoder, its codec and two pushing threads
DecoderSpec == DecoderInit /\ [][DecoderNext]_vars

\* C39: the input buffers are conserved: every buffer index is with the
\* codec, or in the available queue together with its buffer, or in the hands
\* of a push that has not returned yet; a push that returns has submitted the
\* index it took or put it back, on every return path.
C39_InputBuffersConserved ==
    \A i \in Indices :
        \/ i \in decoderCtx.codec
        \/ InQueue(decoderCtx, i) /\ i \in decoderCtx.inputBuffers
        \/ \E k \in Callers : /\ decoderCtx.call[k].pc = "taken"
                               /\ decoderCtx.call[k].bufferIndex = i

(***************************************************************************)
(* VideoStreamProcessor: PushData on the caller's thread, the processing   *)
(* thread that parses frames out of the processor's ring buffer and hands  *)
(* them to the decoder.  The ring buffer is kept as the bytes between its  *)
(* read and its write position: Write, Read, Peek and AdvanceRead depend   *)
(* on the two positions through the counts of readable and writable bytes  *)
(* only.                                                                   *)
(***************************************************************************)

RING_BUFFER_SIZE == 2097152
MAX_FRAME_SIZE == 20971520
MIN_READ_SIZE == 12
AUDIO_HEADER_SIZE == 4
MAX_REASONABLE_FRAME_SIZE == 2097152

\* PushData calls of one run
MaxPushes == 2
\* the processing thread is followed until it has dropped this many frames
MaxDropped == 3
\* a payload that fits the ring buffer only when it is all but empty
BigPayload == RING_BUFFER_SIZE - 20

\* RingBuffer::Write: min(size, writable) bytes are appended, writable being
\* capacity_ - 1 - readable; the count written
WriteCount(ring, data) ==
    Min(BLen(data), RING_BUFFER_SIZE - 1 - BLen(ring))

\* RingBuffer::AdvanceRead(size_t size): toAdvance = min(size, readable).  A
\* negative argument arrives as a size_t of 2^64 - |k|, above every count of
\* readable bytes: nothing that was read before comes back
AdvanceRead(ring, k) ==
    IF k < 0 THEN <<>> ELSE BDrop(ring, Min(k, BLen(ring)))

\* history: which PushData call supplied the bytes of the ring buffer, as
\* runs [n, flags]; OriginDrop forgets the first k bytes
RECURSIVE OriginDrop(_, _)
OriginDrop(o, k) ==
    IF k <= 0 \/ o = <<>> THEN o
    ELSE IF o[1].n > k THEN <<[o[1] EXCEPT !.n = @ - k]>> \o Tail(o)
    ELSE OriginDrop(Tail(o), k - o[1].n)

\* a video packet [8 bytes PTS][4 bytes size][payload], an audio packet
\* [4 bytes size][payload]
VideoPacket(pts, payload) ==
    BCat(BCat(Run(0, 7), Run(pts, 1)), BCat(Bytes(Int32BE(BLen(payload))), payload))
AudioPacket(payload) == BCat(Bytes(Int32BE(BLen(payload))), payload)

\* what a caller passes to PushData: the bytes and the flags it parsed
PushInputs(mediaType) ==
    IF mediaType = "video"
    THEN {[data |-> VideoPacket(5, Run(170, 1)), flags |-> 0],
          [data |-> VideoPacket(0, Run(103, 1)), flags |-> CODEC_DATA],
          [data |-> VideoPacket(7, Run(204, BigPayload)), flags |-> 0]}
    ELSE {[data |-> AudioPacket(Run(170, 1)), flags |-> 0],
          [data |-> AudioPacket(Run(187, 2)), flags |-> 0],
          [data |-> AudioPacket(Run(204, BigPayload)), flags |-> 0]}

PushIdle == [pc |-> "idle", data |-> <<>>, flags |-> 0, written |-> 0, ret |-> 0]
ThreadIdle == [pc |-> "loop", frameSize |-> 0, flags |-> 0, path |-> "none",
               pushResult |-> 0, result |-> 0, before |-> <<>>, payload |-> <<>>,
               supplier |-> 0]

\* Init(type, decoder) and Start(): running, an empty ring buffer, no config
ProcessorStarted(mediaType) ==
    [mediaType_ |-> mediaType, running_ |-> TRUE, ring |-> <<>>, origin |-> <<>>,
     pendingFlags_ |-> 0, configBuffer_ |-> <<>>,
     processedFrameCount_ |-> 0, droppedFrameCount_ |-> 0,
     pushes |-> 0, push |-> PushIdle, thr |-> ThreadIdle]

\* PushData(data, size, pts, flags), size > 0, on a running processor:
\* pendingFlags_.store(flags)
PushData_store ==
    /\ processor.push.pc = "idle"
    /\ processor.running_
    /\ processor.pushes < MaxPushes
    /\ \E in \in PushInputs(processor.mediaType_) :
          processor' = [processor EXCEPT !.pendingFlags_ = in.flags,
                                         !.pushes = @ + 1,
                                         !.push = [PushIdle EXCEPT !.pc = "stored",
                                                                   !.data = in.data,
                                                                   !.flags = in.flags]]
    /\ UNCHANGED <<mgrVars, ringVars, adbVars, wire, bufferPool, decoderCtx>>

\* written = ringBuffer_->Write(data, size); if (written < size) {
\* droppedFrameCount_++; return -2; }  notify; return 0;
PushData_write ==
    /\ processor.push.pc = "stored"
    /\ LET call == processor.push
           written == WriteCount(processor.ring, call.data)
       IN  processor' =
               [processor EXCEPT
                   !.ring = BCat(@, BTake(call.data, written)),
                   !.origin = IF written = 0 THEN @
                              ELSE Append(@, [n |-> written, flags |-> call.flags]),
                   !.droppedFrameCount_ =
                       IF written < BLen(call.data) THEN @ + 1 ELSE @,
                   !.push = [call EXCEPT
                                !.pc = "returned", !.written = written,
                                !.ret = IF written < BLen(call.data) THEN -2 ELSE 0]]
    /\ UNCHANGED <<mgrVars, ringVars, adbVars, wire, bufferPool, decoderCtx>>

PushData_return ==
    /\ processor.push.pc = "returned"
    /\ processor' = [processor EXCEPT !.push = PushIdle]
    /\ UNCHANGED <<mgrVars, ringVars, adbVars, wire, bufferPool, decoderCtx>>

\* ProcessingThread, one round that gets as far as ParseAndPushFrame: the
\* ring buffer holds minRequired bytes and HasAvailableBuffer() is true; the
\* other rounds wait or sleep and change nothing
thread_loop ==
    /\ processor.thr.pc = "loop"
    /\ processor.running_
    /\ BLen(processor.ring) >=
           (IF processor.mediaType_ = "audio" THEN AUDIO_HEADER_SIZE ELSE MIN_READ_SIZE)
    /\ processor.droppedFrameCount_ < MaxDropped
    /\ processor.mediaType_ = "video" => decoderCtx.inputBufferQueue # <<>>
    /\ processor' = [processor EXCEPT !.thr = [ThreadIdle EXCEPT !.pc = "parse"]]
    /\ UNCHANGED <<mgrVars, ringVars, adbVars, wire, bufferPool, decoderCtx>>

\* ParseVideoFrame up to the test for a complete frame: Peek the header,
\* parse the size; an invalid size skips one byte and returns 0, an
\* incomplete frame returns -2
thread_parseVideo ==
    /\ processor.thr.pc = "parse"
    /\ processor.mediaType_ = "video"
    /\ LET ring == processor.ring
           available == BLen(ring)
           frameSize == readInt32BE(ring, 9)
       IN  processor' =
             IF available < MIN_READ_SIZE
             THEN [processor EXCEPT !.thr.pc = "result", !.thr.result = -2]
             ELSE IF frameSize <= 0 \/ frameSize > MAX_REASONABLE_FRAME_SIZE
             THEN [processor EXCEPT !.ring = AdvanceRead(ring, 1),
                                    !.origin = OriginDrop(@, 1),
                                    !.droppedFrameCount_ = @ + 1,
                                    !.thr.pc = "result", !.thr.result = 0]
             ELSE IF available < MIN_READ_SIZE + frameSize
             THEN [processor EXCEPT !.thr.pc = "result", !.thr.result = -2]
             ELSE [processor EXCEPT
                      !.thr.pc = "flags", !.thr.frameSize = frameSize,
                      !.thr.before = BTake(ring, MIN_READ_SIZE + frameSize),
                      !.thr.supplier = processor.origin[1].flags]
    /\ UNCHANGED <<mgrVars, ringVars, adbVars, wire, bufferPool, decoderCtx>>

\* flags = pendingFlags_.load(); isConfig = flags & CODEC_DATA;
\* AdvanceRead(MIN_READ_SIZE); then one of the three ways on
thread_flags ==
    /\ processor.thr.pc = "flags"
    /\ LET flags == processor.pendingFlags_ IN
       processor' =
           [processor EXCEPT
               !.ring = AdvanceRead(@, MIN_READ_SIZE),
               !.origin = OriginDrop(@, MIN_READ_SIZE),
               !.thr.flags = flags,
               !.thr.pc = IF flags = CODEC_DATA THEN "config"
                          ELSE IF processor.configBuffer_ # <<>> THEN "merge"
                          ELSE "direct"]
    /\ UNCHANGED <<mgrVars, ringVars, adbVars, wire, bufferPool, decoderCtx>>

\* a config packet: Read(configBuffer_, frameSize); return 0
thread_config ==
    /\ processor.thr.pc = "config"
    /\ LET n == processor.thr.frameSize IN
       processor' =
           IF BLen(processor.ring) < n
           THEN [processor EXCEPT !.ring = <<>>, !.origin = <<>>,
                                  !.configBuffer_ = <<>>,
                                  !.droppedFrameCount_ = @ + 1,
                                  !.thr.pc = "result", !.thr.result = 0]
           ELSE [processor EXCEPT !.ring = BDrop(@, n),
                                  !.origin = OriginDrop(@, n),
                                  !.configBuffer_ = BTake(processor.ring, n),
                                  !.thr.pc = "result", !.thr.result = 0]
    /\ UNCHANGED <<mgrVars, ringVars, adbVars, wire, bufferPool, decoderCtx>>

\* a frame after a config packet: Read the frame, build [config][frame],
\* clear configBuffer_, then PushToDecoder(mergedFrame): the first part of
\* VideoDecoderNative::PushData
thread_merge ==
    /\ processor.thr.pc = "merge"
    /\ LET n == processor.thr.frameSize
           merged == BCat(processor.configBuffer_, BTake(processor.ring, n))
       IN  IF BLen(processor.ring) < n
           THEN /\ processor' =
                       [processor EXCEPT !.ring = <<>>, !.origin = <<>>,
                                         !.droppedFrameCount_ = @ + 1,
                                         !.thr.pc = "result", !.thr.result = 0]
                /\ UNCHANGED decoderCtx
           ELSE /\ processor' =
                       [processor EXCEPT !.ring = BDrop(@, n),
                                         !.origin = OriginDrop(@, n),
                                         !.configBuffer_ = <<>>,
                                         !.thr.payload = merged,
                                         !.thr.path = "merge",
                                         !.thr.pc = "push"]
                /\ decoderCtx' = TakeFor(decoderCtx, "thread", "PushData",
                                         BLen(merged), processor.thr.flags)
    /\ UNCHANGED <<mgrVars, ringVars, adbVars, wire, bufferPool>>

\* no config held: PushToDecoderFromRingBuffer(ringBuffer_, frameSize, pts,
\* flags): the first part of VideoDecoderNative::PushFromRingBuffer
thread_direct ==
    /\ processor.thr.pc = "direct"
    /\ processor' = [processor EXCEPT !.thr.path = "direct", !.thr.pc = "push"]
    /\ decoderCtx' = TakeFor(decoderCtx, "thread", "PushFromRingBuffer",
                             processor.thr.frameSize, processor.thr.flags)
    /\ UNCHANGED <<mgrVars, ringVars, adbVars, wire, bufferPool>>

\* the rest of PushFromRingBuffer on the processor's ring buffer: with a
\* buffer that is large enough, Read(bufferAddr, size) consumes the payload
thread_readRing ==
    /\ processor.thr.pc = "push"
    /\ decoderCtx.call["thread"].pc = "taken"
    /\ decoderCtx.call["thread"].fn = "PushFromRingBuffer"
    /\ LET c == decoderCtx.call["thread"]
           fits == InputCapacity >= c.size
       IN  /\ \E attrOk \in BOOLEAN, pushOk \in BOOLEAN :
                 LET r == PushFromRingBufferEnd(decoderCtx, c,
                                                BLen(processor.ring) >= c.size,
                                                attrOk, pushOk) IN
                 decoderCtx' = [r.ctx EXCEPT !.call["thread"].pc = "returned",
                                             !.call["thread"].ret = r.ret]
           /\ processor' =
                  IF fits
                  THEN [processor EXCEPT !.ring = BDrop(@, c.size),
                                         !.origin = OriginDrop(@, c.size),
                                         !.thr.payload = BTake(processor.ring, c.size)]
                  ELSE processor
    /\ UNCHANGED <<mgrVars, ringVars, adbVars, wire, bufferPool>>

\* back in ParseVideoFrame with pushResult: count the frame; on the direct
\* way -2 "rolls back" with AdvanceRead(-frameSize) and any other failure
\* skips the payload with AdvanceRead(frameSize)
thread_pushed ==
    /\ processor.thr.pc = "push"
    /\ decoderCtx.call["thread"].pc = "returned"
    /\ LET pushResult == decoderCtx.call["thread"].ret
           t == processor.thr
           k == IF t.path = "merge" \/ pushResult = 0 THEN 0
                ELSE IF pushResult = -2 THEN 0 - t.frameSize
                ELSE t.frameSize
       IN  processor' =
               [processor EXCEPT
                   !.ring = IF k = 0 THEN @ ELSE AdvanceRead(@, k),
                   !.origin = IF k = 0 THEN @
                              ELSE IF k < 0 THEN <<>> ELSE OriginDrop(@, k),
                   !.processedFrameCount_ = IF pushResult = 0 THEN @ + 1 ELSE @,
                   !.droppedFrameCount_ =
                       IF pushResult \notin {0, -2} THEN @ + 1 ELSE @,
                   !.thr.pushResult = pushResult,
                   !.thr.result = pushResult,
                   !.thr.pc = "result"]
    /\ decoderCtx' = [decoderCtx EXCEPT !.call["thread"] = CallIdle]
    /\ UNCHANGED <<mgrVars, ringVars, adbVars, wire, bufferPool>>

\* ParseAudioFrame up to the push: Peek the size; a size <= 0 or above
\* MAX_FRAME_SIZE skips the 4 bytes and returns 0, an incomplete frame
\* returns -2; else AdvanceRead(AUDIO_HEADER_SIZE)
thread_parseAudio ==
    /\ processor.thr.pc = "parse"
    /\ processor.mediaType_ = "audio"
    /\ LET ring == processor.ring
           available == BLen(ring)
           frameSize == readInt32BE(ring, 1)
       IN  processor' =
             IF available < AUDIO_HEADER_SIZE
             THEN [processor EXCEPT !.thr.pc = "result", !.thr.result = -2]
             ELSE IF frameSize <= 0 \/ frameSize > MAX_FRAME_SIZE
             THEN [processor EXCEPT !.ring = AdvanceRead(ring, AUDIO_HEADER_SIZE),
                                    !.origin = OriginDrop(@, AUDIO_HEADER_SIZE),
                                    !.droppedFrameCount_ = @ + 1,
                                    !.thr.pc = "result", !.thr.result = 0]
             ELSE IF available < AUDIO_HEADER_SIZE + frameSize
             THEN [processor EXCEPT !.thr.pc = "result", !.thr.result = -2]
             ELSE [processor EXCEPT
                      !.ring = AdvanceRead(ring, AUDIO_HEADER_SIZE),
                      !.origin = OriginDrop(@, AUDIO_HEADER_SIZE),
                      !.thr.pc = "audioPush", !.thr.frameSize = frameSize,
                      !.thr.before = BTake(ring, AUDIO_HEADER_SIZE + frameSize)]
    /\ UNCHANGED <<mgrVars, ringVars, adbVars, wire, bufferPool, decoderCtx>>

\* PushToDecoderFromRingBuffer on the audio decoder and the end of
\* ParseAudioFrame.  The audio decoder's answer is the environment's: 0 when
\* it took the frameSize bytes, -1 or -2 when it took none.  -2 "rolls back"
\* with AdvanceRead(-AUDIO_HEADER_SIZE), -1 skips the payload
thread_audioPush ==
    /\ processor.thr.pc = "audioPush"
    /\ \E pushResult \in {0, -1, -2} :
          LET n == processor.thr.frameSize
              k == IF pushResult = 0 THEN n
                   ELSE IF pushResult = -2 THEN 0 - AUDIO_HEADER_SIZE
                   ELSE n
          IN  processor' =
                  [processor EXCEPT
                      !.ring = AdvanceRead(@, k),
                      !.origin = IF k < 0 THEN <<>> ELSE OriginDrop(@, k),
                      !.processedFrameCount_ = IF pushResult = 0 THEN @ + 1 ELSE @,
                      !.droppedFrameCount_ = IF pushResult = -1 THEN @ + 1 ELSE @,
                      !.thr.pushResult = pushResult,
                      !.thr.result = pushResult,
                      !.thr.pc = "result"]
    /\ UNCHANGED <<mgrVars, ringVars, adbVars, wire, bufferPool, decoderCtx>>

\* back in ProcessingThread with result: -1 advances the ring buffer by
\* MIN_READ_SIZE when that many bytes are readable; then the next round
thread_result ==
    /\ processor.thr.pc = "result"
    /\ LET skip == processor.thr.result = -1
                   /\ BLen(processor.ring) >= MIN_READ_SIZE
       IN  processor' =
               [processor EXCEPT
                   !.ring = IF skip THEN AdvanceRead(@, MIN_READ_SIZE) ELSE @,
                   !.origin = IF skip THEN OriginDrop(@, MIN_READ_SIZE) ELSE @,
                   !.thr.pc = "loop"]
    /\ UNCHANGED <<mgrVars, ringVars, adbVars, wire, bufferPool, decoderCtx>>

\* the pushData entry point of the application hands one byte of video to
\* the same decoder: VideoDecoderNative::PushData(data, 1, pts, 0)
napi_PushData ==
    /\ decoderCtx # NoDecoderCtx
    /\ decoderCtx.call["napi"].pc = "idle"
    /\ decoderCtx' = TakeFor(decoderCtx, "napi", "PushData", 1, 0)
    /\ UNCHANGED <<mgrVars, ringVars, adbVars, wire, bufferPool, processor>>

\* a started processor: of video on a started video decoder, or of audio
\* on an audio decoder whose answers are the environment's
ProcessorInit ==
    /\ RingInit
    /\ MgrInit
    /\ AdbInit
    /\ ConnectedInit
    /\ IdleInit
    /\ wire = NoWire
    /\ bufferPool = NoPool
    /\ \E mediaType \in {"video", "audio"} :
          /\ processor = ProcessorStarted(mediaType)
          /\ decoderCtx = IF mediaType = "video" THEN DecoderStarted
                          ELSE NoDecoderCtx

ProcessorNext ==
    \/ PushData_store
    \/ PushData_write
    \/ PushData_return
    \/ thread_loop
    \/ thread_parseVideo
    \/ thread_flags
    \/ thread_config
    \/ thread_merge
    \/ thread_direct
    \/ thread_readRing
    \/ thread_pushed
    \/ thread_parseAudio
    \/ thread_audioPush
    \/ thread_result
    \/ \E index \in Indices : OnNeedInputBuffer(index)
    \/ napi_PushData
    \/ PushData_rest("napi")
    \/ PushData_rest("thread")
    \/ Push_return("napi")

\* a caller of PushData, the processing thread, the codec and a second user
\* of the decoder
ProcessorSpec == ProcessorInit /\ [][ProcessorNext]_vars

\* C36: when VideoStreamProcessor::PushData returns -2, none of the bytes of
\* that call have been appended to the ring buffer
C36_RefusedPushAppendsNothing ==
    (processor # NoProcessor /\ processor.push.pc = "returned"
        /\ processor.push.ret = -2)
    => processor.push.written = 0

\* C37: when the decoder answered -2 for a parsed video or audio frame, the
\* ring buffer again starts with the header and the payload of that frame,
\* so that the next attempt parses the same frame
C37_RollbackRestoresFrame ==
    (processor # NoProcessor /\ processor.thr.pc = "result"
        /\ processor.thr.pushResult = -2)
    => BTake(processor.ring, BLen(processor.thr.before)) = processor.thr.before

\* C38: every video frame the processing thread parsed is handled with the
\* flags of the PushData call that supplied it
C38_FlagsOfSupplyingCall ==
    (processor # NoProcessor /\ processor.thr.pc \in {"config", "merge", "direct"})
    => processor.thr.flags = processor.thr.supplier

====
